---- MODULE Spec2Model ----
(***************************************************************************)
(* The request dispatcher of the PWA service worker (src/sw.js): the fetch *)
(* listener, its five strategy executors, the cache store they share, and  *)
(* the install / activate / clear-cache operations that create and delete  *)
(* the store's namespaces.                                                 *)
(*                                                                         *)
(* Further specifications of the same worker: RotationSpec (the activate   *)
(* cleanup step by step, next to the older script service-worker.js),      *)
(* MessageSpec (the control messages) and SyncSpec (background sync).      *)
(*                                                                         *)
(* Every async handler is a task whose pc stands at one of its awaits. One *)
(* action is the completion of the awaited operation together with the     *)
(* code that runs up to the next await. Tasks interleave freely.           *)
(***************************************************************************)
EXTENDS Integers, Sequences, FiniteSets, TLC

VARIABLES
    lifecycle,  \* "parsed", "installed", "active": the worker instance's state
    names,      \* CacheStorage's name-to-cache map, in creation order
    objs,       \* the Cache objects, by identity: id -> (key -> response)
    tasks,      \* one record per fetch event dispatched so far
    written,    \* history: every <<key, response>> a strategy has put
    outbox,     \* messages posted by the worker (port replies, broadcasts)
    clears,     \* number of CLEAR_CACHE messages handled so far
    instances,  \* instances of this script started after the first one
    activation, \* the activate handler's cleanup, while it is under way
    legacy,     \* the older worker script (service-worker.js), where present
    msgs,       \* one record per control message handled so far
    queue,      \* IndexedDB object store pending_posts, in key order
    syncs,      \* one record per sync event handled so far
    posts,      \* history: every POST /api/posts the server has answered
    windows,    \* the window clients (pages) opened so far
    matched,    \* broadcasts in outbox whose clients.matchAll() has resolved
    pushes      \* one record per push event handled so far

\* The state of the subsystems the dispatcher's own steps leave alone.
others ==
    <<instances, activation, legacy, msgs, queue, syncs, posts, windows, matched,
      pushes>>

vars == <<lifecycle, names, objs, tasks, written, outbox, clears, others>>

----------------------------------------------------------------------------
\* Bounds of the model.

MaxEvents == 2      \* fetch events dispatched in one behaviour
MaxVer == 2         \* distinct contents the server may serve for one URL
MaxClears == 1      \* CLEAR_CACHE messages in one behaviour

----------------------------------------------------------------------------
\* Configuration (src/sw.js:13-54).

APP_VERSION == "2.0.0"
CACHE_NAME == "pwa-cache-v2-0-0"
OFFLINE_CACHE == "offline-cache-v1"
NETWORK_TIMEOUT == 5000

\* A URL is its scheme and the segments of its path: "/a/b" is <<"a","b">>,
\* "/a/" is <<"a","">>, "/" is <<>>.
Url(scheme, segs) == [scheme |-> scheme, segs |-> segs]
Path(segs) == Url("https", segs)

ROOT == Path(<<>>)
INDEX_HTML == Path(<<"index.html">>)
OFFLINE_HTML == Path(<<"offline.html">>)
FALLBACK_JPG == Path(<<"assets", "images", "fallback.jpg">>)
LOGO_SVG == Path(<<"assets", "images", "logo.svg">>)
STYLES_CSS == Path(<<"assets", "css", "styles.css">>)
API_WIDGETS == Path(<<"api", "widgets">>)

PRECACHE_ASSETS ==
    << ROOT, INDEX_HTML, Path(<<"manifest.json">>), Path(<<"favicon.ico">>),
       STYLES_CSS, Path(<<"assets", "css", "fonts.css">>),
       Path(<<"assets", "js", "app.js">>), Path(<<"assets", "js", "vendor.js">>),
       Path(<<"assets", "images", "icon-192.png">>),
       Path(<<"assets", "images", "icon-512.png">>),
       LOGO_SVG, FALLBACK_JPG,
       Path(<<"assets", "fonts", "roboto.woff2">>),
       OFFLINE_HTML >>

Range(s) == {s[i] : i \in DOMAIN s}

----------------------------------------------------------------------------
\* Responses.

Undefined == [type |-> "undefined"]

\* A response produced by the network for url, carrying content version ver.
NetResponse(status, url, ver) ==
    [type |-> "network", status |-> status, url |-> url, ver |-> ver]

\* The statuses the modelled server answers with.
NetStatuses == {200, 299, 404}

\* What a fetch of url can resolve with: any content version with status
\* 200, or one of the other statuses.
NetResponses(url) ==
    {NetResponse(200, url, v) : v \in 1..MaxVer}
        \cup {NetResponse(s, url, 1) : s \in NetStatuses \ {200}}

\* Response.ok, buggy variant: the upper limit of the range is not checked.
OkNoUpperLimit(resp) == resp.status >= 200

\* Response.ok, buggy variant: only status 200 counts as success.
OkOnly200(resp) == resp.status = 200

\* Response.ok: the status is in the range 200..299.
Ok(resp) == resp.status >= 200 /\ resp.status <= 299

\* new Response(JSON.stringify({error, timestamp, cached}), {status: 503}).
\* The timestamp is the wall clock's and is not modelled.
OfflineApiResponse ==
    [type |-> "synthesized", status |-> 503,
     contentType |-> "application/json",
     error |-> "You are offline", cached |-> TRUE]

\* Buggy variant of the default strategy's last resort: the status is 504.
NoCacheResponseStatus504 ==
    [type |-> "synthesized", status |-> 504,
     contentType |-> "text/plain",
     text |-> "Network error and no cache available"]

\* new Response('Network error and no cache available', {status: 408}).
NoCacheResponse ==
    [type |-> "synthesized", status |-> 408,
     contentType |-> "text/plain",
     text |-> "Network error and no cache available"]

----------------------------------------------------------------------------
\* The cache store. CacheStorage maps names to Cache objects; a Cache object
\* obtained from caches.open stays usable after caches.delete removed its
\* name, so objects have an identity of their own.

Entries(id) == objs[id]

\* cache.match(request) on a set of entries.
Lookup(entries, key) ==
    IF key \in DOMAIN entries THEN entries[key] ELSE Undefined

\* cache.put(request, response) on a set of entries.
Store(entries, key, resp) ==
    [k \in DOMAIN entries \cup {key} |-> IF k = key THEN resp ELSE entries[k]]

HasName(nm, name) == \E i \in DOMAIN nm : nm[i].name = name

IdOf(nm, name) == nm[CHOOSE i \in DOMAIN nm : nm[i].name = name].id

\* The entries of the namespace called name; none when it does not exist.
Namespace(nm, ob, name) ==
    IF HasName(nm, name) THEN ob[IdOf(nm, name)] ELSE << >>

\* caches.match(url): the first namespace, in creation order, that holds an
\* entry for the key answers.
RECURSIVE MatchFrom(_, _, _, _)
MatchFrom(nm, ob, key, i) ==
    IF i > Len(nm) THEN Undefined
    ELSE IF key \in DOMAIN ob[nm[i].id] THEN ob[nm[i].id][key]
    ELSE MatchFrom(nm, ob, key, i + 1)

CachesMatch(nm, ob, key) == MatchFrom(nm, ob, key, 1)

FreshId(ob) == CHOOSE n \in 1..(Cardinality(DOMAIN ob) + 1) : n \notin DOMAIN ob

\* caches.open(name): the existing Cache object, or a new empty one that is
\* appended to the name map. Yields the new name map, objects and the id.
OpenNames(nm, ob, name) ==
    IF HasName(nm, name) THEN nm
    ELSE Append(nm, [name |-> name, id |-> FreshId(ob)])

OpenObjs(nm, ob, name) ==
    IF HasName(nm, name) THEN ob
    ELSE [id \in DOMAIN ob \cup {FreshId(ob)} |->
            IF id \in DOMAIN ob THEN ob[id] ELSE << >>]

OpenId(nm, ob, name) ==
    IF HasName(nm, name) THEN IdOf(nm, name) ELSE FreshId(ob)

----------------------------------------------------------------------------
\* Requests.

\* The Accept header: absent, or the media types it lists.
NoHeader == [present |-> FALSE, types |-> << >>]
Header(types) == [present |-> TRUE, types |-> types]

Request(method, url, accept) ==
    [method |-> method, url |-> url, accept |-> accept]

HTML_ACCEPT == Header(<<"text/html", "application/xhtml+xml">>)
JSON_ACCEPT == Header(<<"application/json">>)

\* The requests the page issues while the strategies run: one of every
\* policy class (HTML and DEFAULT on the same key), and two that bypass.
Requests ==
    { Request("GET", API_WIDGETS, HTML_ACCEPT),
      Request("GET", LOGO_SVG, NoHeader),
      Request("GET", STYLES_CSS, NoHeader),
      Request("GET", INDEX_HTML, HTML_ACCEPT),
      Request("GET", INDEX_HTML, NoHeader),
      Request("GET", Path(<<"api", "sockjs-node", "info">>), JSON_ACCEPT),
      Request("POST", API_WIDGETS, JSON_ACCEPT) }

\* requestUrl.pathname.startsWith('/d1/.../dn/'): the path goes on after the
\* directory's trailing slash.
PathStartsWith(url, dir) ==
    /\ Len(url.segs) > Len(dir)
    /\ SubSeq(url.segs, 1, Len(dir)) = dir

\* event.request.url.startsWith('chrome-extension://')
IsExtensionUrl(url) == url.scheme = "chrome-extension"

\* event.request.url.includes('sockjs-node')
IncludesSockJs(url) == \E i \in DOMAIN url.segs : url.segs[i] = "sockjs-node"

\* event.request.headers.get('accept')?.includes('text/html')
AcceptsHtml(req) ==
    /\ req.accept.present
    /\ \E i \in DOMAIN req.accept.types : req.accept.types[i] = "text/html"

\* Buggy variant of the first test: only the method is looked at.
SkippedNonGetOnly(req) == req.method # "GET"

\* The listener's first test: the requests it returns from without
\* calling respondWith.
Skipped(req) ==
    \/ req.method # "GET"
    \/ IsExtensionUrl(req.url)
    \/ IncludesSockJs(req.url)

\* Buggy variant of the listener: the /assets/ test precedes /assets/images/.
HandlerForAssetsFirst(req) ==
    IF Skipped(req) THEN "NONE"
    ELSE IF PathStartsWith(req.url, <<"api">>) THEN "API"
    ELSE IF PathStartsWith(req.url, <<"assets">>) THEN "ASSET"
    ELSE IF PathStartsWith(req.url, <<"assets", "images">>) THEN "IMAGE"
    ELSE IF AcceptsHtml(req) THEN "HTML"
    ELSE "DEFAULT"

\* Buggy variant of the listener: the method is not tested.
HandlerForAnyMethod(req) ==
    IF IsExtensionUrl(req.url) \/ IncludesSockJs(req.url) THEN "NONE"
    ELSE IF PathStartsWith(req.url, <<"api">>) THEN "API"
    ELSE IF PathStartsWith(req.url, <<"assets", "images">>) THEN "IMAGE"
    ELSE IF PathStartsWith(req.url, <<"assets">>) THEN "ASSET"
    ELSE IF AcceptsHtml(req) THEN "HTML"
    ELSE "DEFAULT"

\* The fetch listener's choice of handler; "NONE" when it returns without
\* calling respondWith.
HandlerFor(req) ==
    IF Skipped(req) THEN "NONE"
    ELSE IF PathStartsWith(req.url, <<"api">>) THEN "API"
    ELSE IF PathStartsWith(req.url, <<"assets", "images">>) THEN "IMAGE"
    ELSE IF PathStartsWith(req.url, <<"assets">>) THEN "ASSET"
    ELSE IF AcceptsHtml(req) THEN "HTML"
    ELSE "DEFAULT"

----------------------------------------------------------------------------
\* Tasks: one per fetch event.

\* The promise a handler returned to respondWith.
Pending == [state |-> "pending", value |-> Undefined]
Fulfilled(v) == [state |-> "fulfilled", value |-> v]
Rejected(e) == [state |-> "rejected", value |-> [type |-> "error", name |-> e]]
NoRespondWith == [state |-> "none", value |-> Undefined]

\* The fetch a handler issued.
NoFetch == [state |-> "idle", resp |-> Undefined]
FetchPending == [state |-> "pending", resp |-> Undefined]
FetchResolved(r) == [state |-> "resolved", resp |-> r]
FetchThrew == [state |-> "threw", resp |-> Undefined]

\* The handler's first await.
FirstPc(handler) ==
    CASE handler = "NONE" -> "bypassed"
      [] handler = "API" -> "api_open"
      [] handler = "IMAGE" -> "image_open"
      [] handler = "ASSET" -> "asset_open"
      [] handler = "HTML" -> "html_fetch"
      [] handler = "DEFAULT" -> "default_fetch"

\* HTML and DEFAULT call fetch before anything else.
FirstFetch(handler) ==
    IF handler \in {"HTML", "DEFAULT"} THEN FetchPending ELSE NoFetch

NewTask(req) ==
    LET h == HandlerFor(req) IN
    [ req |-> req,
      handler |-> h,
      pc |-> FirstPc(h),
      cache |-> 0,                  \* the Cache object the handler opened
      cachedResponse |-> Undefined, \* what the handler's cache.match gave
      hit |-> "unknown",            \* "hit" / "miss" once it has matched
      fetch |-> FirstFetch(h),
      timedOut |-> FALSE,           \* API: the timer won the race
      put |-> "none",               \* the handler's cache.put
      cacheOps |-> 0,               \* cache store calls made for the request
      cacheFailed |-> FALSE,        \* one of them rejected
      \* Observations made when the handler's promise settles and when its
      \* put takes effect (history, read by no action):
      nsAtReturn |-> Undefined,     \* CACHE_NAME's entry for the key
      offlineAtReturn |-> Undefined, \* what caches.match('/offline.html') gave
      detached |-> FALSE,           \* its Cache object had lost its name
      landed |-> FALSE,             \* the put showed in CACHE_NAME
      putDetached |-> FALSE,        \* the put went to an object without name
      result |-> IF h = "NONE" THEN NoRespondWith ELSE Pending ]

Key(t) == t.req.url

----------------------------------------------------------------------------
\* Bookkeeping shared by the actions.

Set(i, t) == [tasks EXCEPT ![i] = t]

\* The handler has nothing left to run: it lets go of its Cache object.
Done(t) == [t EXCEPT !.pc = "done", !.cache = 0]

\* The Cache object h is not (or no longer) the one CACHE_NAME names.
Detached(h, nn) ==
    /\ h # 0
    /\ \/ ~HasName(nn, CACHE_NAME)
       \/ IdOf(nn, CACHE_NAME) # h

\* What an observer sees when task i's promise settles in the step to
\* (nt, nn, no): CACHE_NAME's entry for the request's key, and whether the
\* Cache object the handler works on is still the one CACHE_NAME names.
Observe(i, nt, nn, no) ==
    LET h == IF nt[i].cache # 0 THEN nt[i].cache ELSE tasks[i].cache
    IN IF tasks[i].result.state = "pending" /\ nt[i].result.state # "pending"
       THEN [nt[i] EXCEPT
               !.nsAtReturn = Lookup(Namespace(nn, no, CACHE_NAME), Key(nt[i])),
               !.offlineAtReturn = CachesMatch(nn, no, OFFLINE_HTML),
               !.detached = Detached(h, nn)]
       ELSE nt[i]

\* The next tasks, name map and Cache objects. A Cache object that no name
\* and no running handler refers to any more is garbage.
Commit(nt, nn, no) ==
    LET live == {nn[i].id : i \in DOMAIN nn} \cup {nt[i].cache : i \in DOMAIN nt}
    IN /\ tasks' = [i \in DOMAIN nt |->
                      IF i \in DOMAIN tasks THEN Observe(i, nt, nn, no) ELSE nt[i]]
       /\ names' = nn
       /\ objs' = [id \in DOMAIN no \cap live |-> no[id]]

\* Buggy variant: the handler opens the offline namespace.
OpenCurrentOpensOffline(i, t) ==
    Commit(Set(i, [t EXCEPT !.cache = OpenId(names, objs, OFFLINE_CACHE),
                            !.cacheOps = @ + 1]),
           OpenNames(names, objs, OFFLINE_CACHE),
           OpenObjs(names, objs, OFFLINE_CACHE))

\* The handler of task i opens CACHE_NAME and goes on as t (its cache field
\* is set here).
OpenCurrent(i, t) ==
    Commit(Set(i, [t EXCEPT !.cache = OpenId(names, objs, CACHE_NAME),
                            !.cacheOps = @ + 1]),
           OpenNames(names, objs, CACHE_NAME),
           OpenObjs(names, objs, CACHE_NAME))

\* cache.put(request, response) through the handler's Cache object takes
\* effect; the handler goes on as t.
PutThrough(i, t, resp) ==
    LET no == [objs EXCEPT ![tasks[i].cache] = Store(@, Key(tasks[i]), resp)]
    IN /\ Commit(Set(i, [t EXCEPT
                            !.landed =
                                Lookup(Namespace(names, no, CACHE_NAME), Key(t)) = resp,
                            !.putDetached = Detached(tasks[i].cache, names)]),
                 names, no)
       /\ written' = written \cup {<<Key(tasks[i]), resp>>}
       /\ UNCHANGED others

----------------------------------------------------------------------------
\* Lifecycle (src/sw.js:60-120) and the CLEAR_CACHE message (497-501, 525-529).

\* cache.addAll, buggy variant: the namespace is rebuilt from the URLs it
\* did not hold yet, so what it held is dropped.
AddAllEvictsPresent(entries, urls, ver) ==
    [k \in Range(urls) \ DOMAIN entries |-> NetResponse(200, k, ver)]

\* cache.addAll(urls): every URL fetched with a 2xx answer, then all stored.
AddAll(entries, urls, ver) ==
    [k \in DOMAIN entries \cup Range(urls) |->
        IF k \in Range(urls) THEN NetResponse(200, k, ver) ELSE entries[k]]

\* The install handler. Both namespaces are opened; each of the two
\* population branches succeeds (storing the content the server holds at
\* install time, version 1) or fails as a whole (0), and the trailing catch
\* swallows a failure.
Install ==
    /\ lifecycle = "parsed"
    /\ \E pv \in {0, 1}, ov \in {0, 1} :
        LET n1 == OpenNames(names, objs, CACHE_NAME)
            o1 == OpenObjs(names, objs, CACHE_NAME)
            id1 == OpenId(names, objs, CACHE_NAME)
            n2 == OpenNames(n1, o1, OFFLINE_CACHE)
            o2 == OpenObjs(n1, o1, OFFLINE_CACHE)
            id2 == OpenId(n1, o1, OFFLINE_CACHE)
            o3 == IF pv = 0 THEN o2
                  ELSE [o2 EXCEPT ![id1] = AddAll(@, PRECACHE_ASSETS, pv)]
            o4 == IF ov = 0 THEN o3
                  ELSE [o3 EXCEPT ![id2] =
                            Store(@, OFFLINE_HTML,
                                  NetResponse(200, OFFLINE_HTML, ov))]
        IN Commit(tasks, n2, o4)
    /\ lifecycle' = "installed"
    /\ UNCHANGED <<written, others, outbox, clears>>

\* Buggy variant of the activate handler: only the offline namespace is
\* spared.
ActivateSparesOfflineOnly ==
    /\ lifecycle = "installed"
    /\ Commit(tasks, SelectSeq(names, LAMBDA c : c.name = OFFLINE_CACHE), objs)
    /\ lifecycle' = "active"
    /\ outbox' = Append(outbox, [to |-> "clients", type |-> "SW_ACTIVATED",
                                 version |-> APP_VERSION])
    /\ UNCHANGED <<written, others, clears>>

\* The activate handler: every namespace but the two of this version is
\* deleted, then the pages are told.
Activate ==
    /\ lifecycle = "installed"
    /\ Commit(tasks,
              SelectSeq(names, LAMBDA c : c.name \in {CACHE_NAME, OFFLINE_CACHE}),
              objs)
    /\ lifecycle' = "active"
    /\ outbox' = Append(outbox, [to |-> "clients", type |-> "SW_ACTIVATED",
                                 version |-> APP_VERSION])
    /\ UNCHANGED <<written, others, clears>>

\* The CLEAR_CACHE message: clearCache deletes every namespace, then the
\* reply is posted on the port.
ClearCache ==
    /\ lifecycle = "active"
    /\ clears < MaxClears
    /\ Commit(tasks, << >>, objs)
    /\ clears' = clears + 1
    /\ outbox' = Append(outbox, [to |-> "port", type |-> "CLEAR_CACHE",
                                 success |-> TRUE])
    /\ UNCHANGED <<lifecycle, written, others>>

----------------------------------------------------------------------------
\* The fetch listener (src/sw.js:126-164).

FetchEvent(req) ==
    /\ lifecycle = "active"
    /\ Len(tasks) < MaxEvents
    /\ tasks' = Append(tasks, NewTask(req))
    /\ UNCHANGED <<lifecycle, names, objs, written, others, outbox, clears>>

----------------------------------------------------------------------------
\* Strategy 1, handleApiRequest (src/sw.js:171-211).

\* await caches.open(CACHE_NAME); then the fetch and the timer are started.
ApiOpen(i) ==
    /\ tasks[i].pc = "api_open"
    /\ OpenCurrent(i, [tasks[i] EXCEPT !.pc = "api_race", !.fetch = FetchPending])
    /\ UNCHANGED <<lifecycle, written, others, outbox, clears>>

\* The fetch wins the race with a response: an ok one is put (awaited),
\* any other is returned at once.
ApiFetchResolves(i, r) ==
    /\ tasks[i].pc = "api_race"
    /\ IF Ok(r)
       THEN Commit(Set(i, [tasks[i] EXCEPT !.pc = "api_put",
                                           !.fetch = FetchResolved(r),
                                           !.put = "pending"]),
                   names, objs)
       ELSE Commit(Set(i, Done([tasks[i] EXCEPT !.fetch = FetchResolved(r),
                                                !.result = Fulfilled(r)])),
                   names, objs)
    /\ UNCHANGED <<lifecycle, written, others, outbox, clears>>

\* The fetch rejects first: the catch block asks the cache.
ApiFetchThrows(i) ==
    /\ tasks[i].pc = "api_race"
    /\ Commit(Set(i, [tasks[i] EXCEPT !.pc = "api_catch", !.fetch = FetchThrew]),
              names, objs)
    /\ UNCHANGED <<lifecycle, written, others, outbox, clears>>

\* Buggy variant: no timer is started, the race is the fetch's alone.
ApiTimeoutNoTimer(i) ==
    /\ tasks[i].pc = "api_race"
    /\ FALSE
    /\ UNCHANGED vars

\* The timer rejects first; the fetch stays in flight and nothing awaits it.
ApiTimeout(i) ==
    /\ tasks[i].pc = "api_race"
    /\ Commit(Set(i, [tasks[i] EXCEPT !.pc = "api_catch", !.timedOut = TRUE]),
              names, objs)
    /\ UNCHANGED <<lifecycle, written, others, outbox, clears>>

\* await cache.put(request, response.clone()) completes; return response.
ApiPut(i) ==
    /\ tasks[i].pc = "api_put"
    /\ PutThrough(i, Done([tasks[i] EXCEPT !.put = "done",
                                           !.cacheOps = @ + 1,
                                           !.result = Fulfilled(tasks[i].fetch.resp)]),
                  tasks[i].fetch.resp)
    /\ UNCHANGED <<lifecycle, outbox, clears>>

\* Buggy variant of the catch block: the cached copy is not looked for.
ApiCatchResultNoCache(cached) == Fulfilled(OfflineApiResponse)

\* Buggy variant of the catch block: without a cached copy it answers as
\* the default strategy does, with the 408 text response.
ApiCatchResult408(cached) ==
    IF cached # Undefined THEN Fulfilled(cached)
    ELSE Fulfilled(NoCacheResponse)

\* The catch block's return value, given what cache.match gave.
ApiCatchResult(cached) ==
    IF cached # Undefined THEN Fulfilled(cached)
    ELSE Fulfilled(OfflineApiResponse)

\* await cache.match(request) completes in the catch block.
ApiCatchMatch(i) ==
    /\ tasks[i].pc = "api_catch"
    /\ LET c == Lookup(objs[tasks[i].cache], Key(tasks[i]))
       IN Commit(Set(i, Done([tasks[i] EXCEPT
                                !.cachedResponse = c,
                                !.hit = IF c # Undefined THEN "hit" ELSE "miss",
                                !.cacheOps = @ + 1,
                                !.result = ApiCatchResult(c)])),
                 names, objs)
    /\ UNCHANGED <<lifecycle, written, others, outbox, clears>>

\* The fetch that lost the race to the timer settles; its outcome is dropped.
ApiLateFetch(i) ==
    /\ tasks[i].timedOut
    /\ tasks[i].fetch.state = "pending"
    /\ \E f \in {FetchThrew} \cup {FetchResolved(r) : r \in NetResponses(Key(tasks[i]))} :
          Commit(Set(i, [tasks[i] EXCEPT !.fetch = f]), names, objs)
    /\ UNCHANGED <<lifecycle, written, others, outbox, clears>>

----------------------------------------------------------------------------
\* A cache.put that the handler did not await (src/sw.js:239, 257, 286,
\* 312) takes effect some time after the handler went on.

BackgroundPut(i) ==
    /\ tasks[i].pc = "put_pending"
    /\ PutThrough(i, Done([tasks[i] EXCEPT !.put = "done", !.cacheOps = @ + 1]),
                  tasks[i].fetch.resp)
    /\ UNCHANGED <<lifecycle, outbox, clears>>

\* Buggy variant: the response is put whatever its status.
AfterResponsePutsAnyStatus(t, r) ==
    [t EXCEPT !.pc = "put_pending", !.fetch = FetchResolved(r),
              !.put = "pending"]

\* The handler's state after a fetch resolved with r and the code tested
\* r.ok: an ok response is put without await, any other is not.
AfterResponse(t, r) ==
    IF Ok(r)
    THEN [t EXCEPT !.pc = "put_pending", !.fetch = FetchResolved(r),
                   !.put = "pending"]
    ELSE Done([t EXCEPT !.fetch = FetchResolved(r)])

----------------------------------------------------------------------------
\* Strategy 2, handleImageRequest (src/sw.js:214-246).

ImageOpen(i) ==
    /\ tasks[i].pc = "image_open"
    /\ OpenCurrent(i, [tasks[i] EXCEPT !.pc = "image_match"])
    /\ UNCHANGED <<lifecycle, written, others, outbox, clears>>

\* Lines 219-233 with a cached copy: `event` is not bound in this function
\* nor in the worker's global scope, so evaluating event.waitUntil throws a
\* ReferenceError before fetch is called and the async function rejects.
ImageHitResult(cached) == Rejected("ReferenceError")

\* await cache.match(request) completes. A hit runs lines 219-233; a miss
\* starts the foreground fetch.
ImageMatch(i) ==
    /\ tasks[i].pc = "image_match"
    /\ LET c == Lookup(objs[tasks[i].cache], Key(tasks[i]))
           t == [tasks[i] EXCEPT !.cachedResponse = c,
                                 !.hit = IF c # Undefined THEN "hit" ELSE "miss",
                                 !.cacheOps = @ + 1]
       IN IF c # Undefined
          THEN Commit(Set(i, Done([t EXCEPT !.result = ImageHitResult(c)])),
                      names, objs)
          ELSE Commit(Set(i, [t EXCEPT !.pc = "image_fetch",
                                       !.fetch = FetchPending]),
                      names, objs)
    /\ UNCHANGED <<lifecycle, written, others, outbox, clears>>

\* await fetch(request) resolves: the response is returned, an ok one is
\* also put (not awaited).
ImageFetchResolves(i, r) ==
    /\ tasks[i].pc = "image_fetch"
    /\ Commit(Set(i, AfterResponse([tasks[i] EXCEPT !.result = Fulfilled(r)], r)),
              names, objs)
    /\ UNCHANGED <<lifecycle, written, others, outbox, clears>>

\* await fetch(request) rejects: the catch block asks for the fallback image.
ImageFetchThrows(i) ==
    /\ tasks[i].pc = "image_fetch"
    /\ Commit(Set(i, [tasks[i] EXCEPT !.pc = "image_fallback",
                                      !.fetch = FetchThrew]),
              names, objs)
    /\ UNCHANGED <<lifecycle, written, others, outbox, clears>>

\* Buggy variant of the catch block: the offline page is looked up instead
\* of the fallback image.
ImageFallbackResultOfflinePage(nm, ob) == Fulfilled(CachesMatch(nm, ob, OFFLINE_HTML))

\* return caches.match('/assets/images/fallback.jpg')
ImageFallbackResult(nm, ob) == Fulfilled(CachesMatch(nm, ob, FALLBACK_JPG))

ImageFallback(i) ==
    /\ tasks[i].pc = "image_fallback"
    /\ Commit(Set(i, Done([tasks[i] EXCEPT
                             !.cacheOps = @ + 1,
                             !.result = ImageFallbackResult(names, objs)])),
              names, objs)
    /\ UNCHANGED <<lifecycle, written, others, outbox, clears>>

----------------------------------------------------------------------------
\* Strategy 3, handleAssetRequest (src/sw.js:249-276).

AssetOpen(i) ==
    /\ tasks[i].pc = "asset_open"
    /\ OpenCurrent(i, [tasks[i] EXCEPT !.pc = "asset_match"])
    /\ UNCHANGED <<lifecycle, written, others, outbox, clears>>

\* Buggy variant: the handler waits for the network although it has a copy.
AssetAfterMatchAwaitNetwork(t, cached) ==
    [t EXCEPT !.pc = "asset_fetch", !.fetch = FetchPending]

\* Lines 254-275 up to the fetch's outcome: the fetch is issued; with a
\* cached copy the handler returns it at once and the fetch goes on behind.
AssetAfterMatch(t, cached) ==
    IF cached # Undefined
    THEN [t EXCEPT !.pc = "asset_revalidate", !.fetch = FetchPending,
                   !.result = Fulfilled(cached)]
    ELSE [t EXCEPT !.pc = "asset_fetch", !.fetch = FetchPending]

\* await cache.match(request) completes.
AssetMatch(i) ==
    /\ tasks[i].pc = "asset_match"
    /\ LET c == Lookup(objs[tasks[i].cache], Key(tasks[i]))
           t == [tasks[i] EXCEPT !.cachedResponse = c,
                                 !.hit = IF c # Undefined THEN "hit" ELSE "miss",
                                 !.cacheOps = @ + 1]
       IN Commit(Set(i, AssetAfterMatch(t, c)), names, objs)
    /\ UNCHANGED <<lifecycle, written, others, outbox, clears>>

\* The fetch resolves (lines 255-260): an ok response is put (not awaited);
\* the caller gets the response when it is still waiting for one.
AssetFetchResolves(i, r) ==
    /\ tasks[i].pc \in {"asset_fetch", "asset_revalidate"}
    /\ Commit(Set(i, AfterResponse(
                        IF tasks[i].pc = "asset_fetch"
                        THEN [tasks[i] EXCEPT !.result = Fulfilled(r)]
                        ELSE tasks[i], r)),
              names, objs)
    /\ UNCHANGED <<lifecycle, written, others, outbox, clears>>

\* Buggy variant of the catch callback: without a cached copy the handler
\* answers with the 408 of the default strategy instead of rejecting.
AssetFetchThrowsAnswers408(i) ==
    /\ tasks[i].pc \in {"asset_fetch", "asset_revalidate"}
    /\ Commit(Set(i, Done(
                IF tasks[i].cachedResponse # Undefined
                THEN [tasks[i] EXCEPT !.fetch = FetchThrew]
                ELSE [tasks[i] EXCEPT
                        !.fetch = FetchThrew,
                        !.result = Fulfilled(NoCacheResponse)])),
              names, objs)
    /\ UNCHANGED <<lifecycle, written, others, outbox, clears>>

\* The fetch rejects (lines 261-267): with a cached copy the failure is
\* swallowed, without one the handler's promise rejects.
AssetFetchThrows(i) ==
    /\ tasks[i].pc \in {"asset_fetch", "asset_revalidate"}
    /\ Commit(Set(i, Done(
                IF tasks[i].cachedResponse # Undefined
                THEN [tasks[i] EXCEPT !.fetch = FetchThrew]
                ELSE [tasks[i] EXCEPT
                        !.fetch = FetchThrew,
                        !.result = Rejected("Network failed and no cache available")])),
              names, objs)
    /\ UNCHANGED <<lifecycle, written, others, outbox, clears>>

----------------------------------------------------------------------------
\* Strategy 4, handleHtmlRequest (src/sw.js:279-302), and the default
\* strategy, networkFirstWithCache (src/sw.js:305-331).

\* await fetch(request) resolves: an ok response sends the handler to
\* caches.open before it returns; any other is returned at once.
NetworkFirstResolves(i, r, first, open) ==
    /\ tasks[i].pc = first
    /\ Commit(Set(i, IF Ok(r)
                     THEN [tasks[i] EXCEPT !.pc = open, !.fetch = FetchResolved(r)]
                     ELSE Done([tasks[i] EXCEPT !.fetch = FetchResolved(r),
                                                !.result = Fulfilled(r)])),
              names, objs)
    /\ UNCHANGED <<lifecycle, written, others, outbox, clears>>

\* Buggy variant: the put is awaited before the response is returned.
NetworkFirstOpenPutAwaited(i, open) ==
    /\ tasks[i].pc = open
    /\ OpenCurrent(i, [tasks[i] EXCEPT !.pc = "put_pending", !.put = "pending"])
    /\ UNCHANGED <<lifecycle, written, others, outbox, clears>>

\* await caches.open(CACHE_NAME) completes in the try block; the put is
\* issued without await and the network response is returned.
NetworkFirstOpenPut(i, open) ==
    /\ tasks[i].pc = open
    /\ OpenCurrent(i, [tasks[i] EXCEPT !.pc = "put_pending", !.put = "pending",
                                       !.result = Fulfilled(tasks[i].fetch.resp)])
    /\ UNCHANGED <<lifecycle, written, others, outbox, clears>>

\* await fetch(request) rejects: the catch block opens the cache.
NetworkFirstThrows(i, first, catchOpen) ==
    /\ tasks[i].pc = first
    /\ Commit(Set(i, [tasks[i] EXCEPT !.pc = catchOpen, !.fetch = FetchThrew]),
              names, objs)
    /\ UNCHANGED <<lifecycle, written, others, outbox, clears>>

\* await caches.open(CACHE_NAME) completes in the catch block.
NetworkFirstCatchOpen(i, catchOpen, catchMatch) ==
    /\ tasks[i].pc = catchOpen
    /\ OpenCurrent(i, [tasks[i] EXCEPT !.pc = catchMatch])
    /\ UNCHANGED <<lifecycle, written, others, outbox, clears>>

HtmlFetchResolves(i, r) == NetworkFirstResolves(i, r, "html_fetch", "html_open")

HtmlOpenPut(i) == NetworkFirstOpenPut(i, "html_open")

HtmlFetchThrows(i) == NetworkFirstThrows(i, "html_fetch", "html_catch_open")

HtmlCatchOpen(i) == NetworkFirstCatchOpen(i, "html_catch_open", "html_catch_match")

\* await cache.match(request) completes in handleHtmlRequest's catch block:
\* a hit is returned, a miss asks every namespace for the offline page.
HtmlCatchMatch(i) ==
    /\ tasks[i].pc = "html_catch_match"
    /\ LET c == Lookup(objs[tasks[i].cache], Key(tasks[i]))
           t == [tasks[i] EXCEPT !.cachedResponse = c,
                                 !.hit = IF c # Undefined THEN "hit" ELSE "miss",
                                 !.cacheOps = @ + 1]
       IN Commit(Set(i, IF c # Undefined
                        THEN Done([t EXCEPT !.result = Fulfilled(c)])
                        ELSE [t EXCEPT !.pc = "html_offline"]),
                 names, objs)
    /\ UNCHANGED <<lifecycle, written, others, outbox, clears>>

\* Buggy variant: the fallback image is served in place of the offline page.
HtmlOfflineResultWrongKey(nm, ob) == Fulfilled(CachesMatch(nm, ob, FALLBACK_JPG))

\* return caches.match('/offline.html')
HtmlOfflineResult(nm, ob) == Fulfilled(CachesMatch(nm, ob, OFFLINE_HTML))

HtmlOffline(i) ==
    /\ tasks[i].pc = "html_offline"
    /\ Commit(Set(i, Done([tasks[i] EXCEPT
                             !.cacheOps = @ + 1,
                             !.result = HtmlOfflineResult(names, objs)])),
              names, objs)
    /\ UNCHANGED <<lifecycle, written, others, outbox, clears>>

DefaultFetchResolves(i, r) ==
    NetworkFirstResolves(i, r, "default_fetch", "default_open")

DefaultOpenPut(i) == NetworkFirstOpenPut(i, "default_open")

DefaultFetchThrows(i) ==
    NetworkFirstThrows(i, "default_fetch", "default_catch_open")

DefaultCatchOpen(i) ==
    NetworkFirstCatchOpen(i, "default_catch_open", "default_catch_match")

\* await cache.match(request) completes in networkFirstWithCache's catch
\* block: a hit is returned, a miss gives the plain-text 408.
DefaultCatchMatch(i) ==
    /\ tasks[i].pc = "default_catch_match"
    /\ LET c == Lookup(objs[tasks[i].cache], Key(tasks[i]))
       IN Commit(Set(i, Done([tasks[i] EXCEPT
                                !.cachedResponse = c,
                                !.hit = IF c # Undefined THEN "hit" ELSE "miss",
                                !.cacheOps = @ + 1,
                                !.result = IF c # Undefined THEN Fulfilled(c)
                                           ELSE Fulfilled(NoCacheResponse)])),
                 names, objs)
    /\ UNCHANGED <<lifecycle, written, others, outbox, clears>>

----------------------------------------------------------------------------
\* The specification.

\* The worker script has been evaluated: nothing is cached yet.
\* No cleanup under way, no older script registered, no control message and
\* no sync event handled, nothing queued.
NoActivation ==
    [pc |-> "idle", keys |-> {}, todo |-> {}, deleted |-> {},
     created |-> {}, left |-> {}, claimed |-> FALSE]

NoLegacy == [state |-> "absent", todo |-> {}, fetch |-> "idle", cache |-> 0]

OthersIdle ==
    /\ instances = 0
    /\ activation = NoActivation
    /\ legacy = NoLegacy
    /\ msgs = << >>
    /\ queue = << >>
    /\ syncs = << >>
    /\ posts = << >>
    /\ windows = << >>
    /\ matched = 0
    /\ pushes = << >>

Init ==
    /\ lifecycle = "parsed"
    /\ names = << >>
    /\ objs = << >>
    /\ tasks = << >>
    /\ written = {}
    /\ outbox = << >>
    /\ clears = 0
    /\ OthersIdle

Next ==
    \/ Install
    \/ Activate
    \/ ClearCache
    \/ \E req \in Requests : FetchEvent(req)
    \/ \E i \in DOMAIN tasks : ApiOpen(i)
    \/ \E i \in DOMAIN tasks : \E r \in NetResponses(Key(tasks[i])) : ApiFetchResolves(i, r)
    \/ \E i \in DOMAIN tasks : ApiFetchThrows(i)
    \/ \E i \in DOMAIN tasks : ApiTimeout(i)
    \/ \E i \in DOMAIN tasks : ApiPut(i)
    \/ \E i \in DOMAIN tasks : ApiCatchMatch(i)
    \/ \E i \in DOMAIN tasks : ApiLateFetch(i)
    \/ \E i \in DOMAIN tasks : ImageOpen(i)
    \/ \E i \in DOMAIN tasks : ImageMatch(i)
    \/ \E i \in DOMAIN tasks : \E r \in NetResponses(Key(tasks[i])) : ImageFetchResolves(i, r)
    \/ \E i \in DOMAIN tasks : ImageFetchThrows(i)
    \/ \E i \in DOMAIN tasks : ImageFallback(i)
    \/ \E i \in DOMAIN tasks : AssetOpen(i)
    \/ \E i \in DOMAIN tasks : AssetMatch(i)
    \/ \E i \in DOMAIN tasks : \E r \in NetResponses(Key(tasks[i])) : AssetFetchResolves(i, r)
    \/ \E i \in DOMAIN tasks : AssetFetchThrows(i)
    \/ \E i \in DOMAIN tasks : \E r \in NetResponses(Key(tasks[i])) : HtmlFetchResolves(i, r)
    \/ \E i \in DOMAIN tasks : HtmlOpenPut(i)
    \/ \E i \in DOMAIN tasks : HtmlFetchThrows(i)
    \/ \E i \in DOMAIN tasks : HtmlCatchOpen(i)
    \/ \E i \in DOMAIN tasks : HtmlCatchMatch(i)
    \/ \E i \in DOMAIN tasks : HtmlOffline(i)
    \/ \E i \in DOMAIN tasks : \E r \in NetResponses(Key(tasks[i])) : DefaultFetchResolves(i, r)
    \/ \E i \in DOMAIN tasks : DefaultOpenPut(i)
    \/ \E i \in DOMAIN tasks : DefaultFetchThrows(i)
    \/ \E i \in DOMAIN tasks : DefaultCatchOpen(i)
    \/ \E i \in DOMAIN tasks : DefaultCatchMatch(i)
    \/ \E i \in DOMAIN tasks : BackgroundPut(i)

Spec == Init /\ [][Next]_vars

\* A cache.put that was issued takes effect: the platform completes the
\* cache operations it accepted.
FairSpec ==
    Spec /\ \A i \in 1..MaxEvents : WF_vars(i \in DOMAIN tasks /\ BackgroundPut(i))

----------------------------------------------------------------------------
\* The fetch listener alone, on a wider set of requests: every method, path
\* shape and Accept header below. The handlers it starts are not run.

ListenerUrls ==
    { API_WIDGETS, Path(<<"api">>), Path(<<"apis", "v1">>),
      LOGO_SVG, Path(<<"assets", "images">>), STYLES_CSS,
      INDEX_HTML, Path(<<"static", "assets", "app.js">>),
      Path(<<"api", "sockjs-node", "info">>),
      Url("chrome-extension", <<"assets", "images", "icon.png">>) }

ListenerAccepts ==
    { NoHeader, HTML_ACCEPT, JSON_ACCEPT, Header(<<"image/png", "text/html">>) }

ListenerRequests ==
    { Request(m, u, a) : m \in {"GET", "POST"},
                         u \in ListenerUrls, a \in ListenerAccepts }

\* The worker after an install that cached everything and an activation.
ListenerInit ==
    /\ lifecycle = "active"
    /\ names = << [name |-> CACHE_NAME, id |-> 1], [name |-> OFFLINE_CACHE, id |-> 2] >>
    /\ objs = << AddAll(<< >>, PRECACHE_ASSETS, 1),
                 Store(<< >>, OFFLINE_HTML, NetResponse(200, OFFLINE_HTML, 1)) >>
    /\ tasks = << >>
    /\ written = {}
    /\ outbox = << [to |-> "clients", type |-> "SW_ACTIVATED", version |-> APP_VERSION] >>
    /\ clears = 0
    /\ OthersIdle

ListenerNext == \E req \in ListenerRequests : FetchEvent(req)

ListenerSpec == ListenerInit /\ [][ListenerNext]_vars

----------------------------------------------------------------------------
\* Vocabulary of the properties.

TaskIds == DOMAIN tasks

\* The handler's promise has settled.
Settled(t) == t.result.state \in {"fulfilled", "rejected"}

\* A status in 200..299, as the specification words it.
In2xx(status) == status \in 200..299

\* The API handler's fetch settled before the timer with a 2xx response.
ApiInTime(t) ==
    /\ t.handler = "API"
    /\ ~t.timedOut
    /\ t.fetch.state = "resolved"
    /\ In2xx(t.fetch.resp.status)

\* The API handler's fetch threw, or the timer fired first.
ApiFailed(t) == t.handler = "API" /\ (t.timedOut \/ t.fetch.state = "threw")

\* The entry CACHE_NAME holds now for task t's key.
CurrentEntry(t) == Lookup(Namespace(names, objs, CACHE_NAME), Key(t))

----------------------------------------------------------------------------
----------------------------------------------------------------------------
\* C2, as claimed: when the API fetch throws or times out, an entry of the
\* current-version namespace for the key is what the handler returns, and
\* the 503 is returned only when the namespace holds no entry.
C2_AsClaimed ==
    \A i \in TaskIds :
        ApiFailed(tasks[i]) /\ Settled(tasks[i]) =>
            /\ tasks[i].nsAtReturn # Undefined =>
                    tasks[i].result = Fulfilled(tasks[i].nsAtReturn)
            /\ tasks[i].result = Fulfilled(OfflineApiResponse) =>
                    tasks[i].nsAtReturn = Undefined

\* C2, amended: the entry returned is that of the Cache object the handler
\* opened, which is the current-version namespace unless the namespace was
\* deleted after the open; the handler writes nothing, and the 503 is
\* returned only when that object holds no entry.
C2_ApiFallsBackToCache ==
    \A i \in TaskIds :
        ApiFailed(tasks[i]) /\ Settled(tasks[i]) =>
            /\ tasks[i].put = "none"
            /\ tasks[i].cachedResponse # Undefined =>
                    tasks[i].result = Fulfilled(tasks[i].cachedResponse)
            /\ tasks[i].result = Fulfilled(OfflineApiResponse) =>
                    tasks[i].cachedResponse = Undefined
            /\ ~tasks[i].detached => tasks[i].cachedResponse = tasks[i].nsAtReturn

\* C2's case: the timer fired on an API request whose key was cached, and
\* the handler returned the cached entry, which is still in the namespace.
C2_Witness ==
    \E i \in TaskIds :
        /\ tasks[i].handler = "API" /\ tasks[i].timedOut /\ Settled(tasks[i])
        /\ tasks[i].nsAtReturn # Undefined
        /\ tasks[i].result = Fulfilled(tasks[i].nsAtReturn)
        /\ CurrentEntry(tasks[i]) = tasks[i].nsAtReturn

----------------------------------------------------------------------------
\* C3: an API request whose lookup finds no cached entry and whose timer
\* fires before the fetch settles gets the synthesized 503 with error "You
\* are offline"; the handler puts nothing, and no synthesized response is
\* ever stored in a Cache object.
C3_ApiTimeoutOffline503 ==
    /\ \A i \in TaskIds :
          /\ tasks[i].handler = "API"
          /\ tasks[i].timedOut
          /\ Settled(tasks[i])
          /\ tasks[i].hit = "miss"
          => /\ tasks[i].result.state = "fulfilled"
             /\ tasks[i].result.value.type = "synthesized"
             /\ tasks[i].result.value.status = 503
             /\ tasks[i].result.value.error = "You are offline"
             /\ tasks[i].put = "none"
    /\ \A id \in DOMAIN objs : \A k \in DOMAIN objs[id] :
          objs[id][k].type = "network"
    /\ \A w \in written : w[2].type = "network"

\* C3's case: the timer fired with nothing cached, the 503 was returned and
\* the namespace still has no entry for the key.
C3_Witness ==
    \E i \in TaskIds :
        /\ tasks[i].handler = "API" /\ tasks[i].timedOut
        /\ tasks[i].hit = "miss"
        /\ tasks[i].result = Fulfilled(OfflineApiResponse)
        /\ CurrentEntry(tasks[i]) = Undefined

----------------------------------------------------------------------------
\* C4, as claimed: an IMAGE request whose key is cached gets exactly the
\* cached entry, a background fetch is issued, and the handler does not
\* end in a rejected promise.
C4_AsClaimed ==
    \A i \in TaskIds :
        /\ tasks[i].handler = "IMAGE"
        /\ tasks[i].hit = "hit"
        => /\ tasks[i].result = Fulfilled(tasks[i].cachedResponse)
           /\ tasks[i].fetch.state # "idle"

----------------------------------------------------------------------------
\* C5, as claimed, in the form a finite run refutes: once the handler of
\* an ASSET request with a cached copy and a 2xx network answer has nothing
\* left to run, it has returned the cached copy and its put of the fresh
\* response has shown in the current-version namespace.
AssetStale(i) ==
    /\ i \in DOMAIN tasks
    /\ tasks[i].handler = "ASSET"
    /\ tasks[i].hit = "hit"
    /\ tasks[i].fetch.state = "resolved"
    /\ In2xx(tasks[i].fetch.resp.status)

----------------------------------------------------------------------------
\* C6, as claimed: an HTML request whose fetch fails and whose key has no
\* entry in the current-version namespace gets what is stored under
\* /offline.html.
C6_AsClaimed ==
    \A i \in TaskIds :
        /\ tasks[i].handler = "HTML"
        /\ tasks[i].fetch.state = "threw"
        /\ Settled(tasks[i])
        /\ tasks[i].nsAtReturn = Undefined
        => tasks[i].result = Fulfilled(tasks[i].offlineAtReturn)

\* C6, amended: an HTML request whose fetch fails and whose key has no
\* entry in the Cache object the handler opened (the current-version
\* namespace unless it was deleted after the open) gets what
\* caches.match('/offline.html') finds: a stored 2xx response for
\* /offline.html when some namespace holds one, undefined when none does.
C6_HtmlOfflineFallback ==
    \A i \in TaskIds :
        /\ tasks[i].handler = "HTML"
        /\ tasks[i].fetch.state = "threw"
        /\ Settled(tasks[i])
        /\ tasks[i].hit = "miss"
        => /\ tasks[i].result = Fulfilled(tasks[i].offlineAtReturn)
           /\ tasks[i].offlineAtReturn # Undefined =>
                /\ tasks[i].offlineAtReturn.type = "network"
                /\ tasks[i].offlineAtReturn.url = OFFLINE_HTML
                /\ In2xx(tasks[i].offlineAtReturn.status)

\* C6's case: the precache failed, so /index.html is not cached; the fetch
\* failed and the handler returned the offline namespace's /offline.html.
C6_Witness ==
    \E i \in TaskIds :
        /\ tasks[i].handler = "HTML"
        /\ tasks[i].fetch.state = "threw"
        /\ tasks[i].hit = "miss"
        /\ tasks[i].nsAtReturn = Undefined
        /\ tasks[i].result = Fulfilled(NetResponse(200, OFFLINE_HTML, 1))
        /\ Lookup(Namespace(names, objs, OFFLINE_CACHE), OFFLINE_HTML)
              = tasks[i].result.value

----------------------------------------------------------------------------
\* C7, as claimed: every intercepted GET request of every policy class ends
\* with a defined Response: no handler's promise rejects or resolves with
\* undefined.
C7_AsClaimed ==
    \A i \in TaskIds :
        tasks[i].handler # "NONE" /\ Settled(tasks[i]) =>
            /\ tasks[i].result.state = "fulfilled"
            /\ tasks[i].result.value # Undefined

----------------------------------------------------------------------------
\* C8: a network response with a status outside 200..299 that arrives
\* without exception or timeout is never written to a cache, and it is what
\* the handler returns, whether or not a copy is cached under the key; only
\* the ASSET strategy, which has returned its cached copy before the fetch
\* settles, returns the copy.
C8_Non2xxReturnedNeverCached ==
    /\ \A w \in written : In2xx(w[2].status)
    /\ \A id \in DOMAIN objs : \A k \in DOMAIN objs[id] : In2xx(objs[id][k].status)
    /\ \A i \in TaskIds :
          /\ tasks[i].fetch.state = "resolved"
          /\ ~tasks[i].timedOut
          /\ ~In2xx(tasks[i].fetch.resp.status)
          => /\ tasks[i].put = "none"
             /\ tasks[i].pc = "done"
             /\ IF tasks[i].handler = "ASSET" /\ tasks[i].hit = "hit"
                THEN tasks[i].result = Fulfilled(tasks[i].cachedResponse)
                ELSE tasks[i].result = Fulfilled(tasks[i].fetch.resp)

\* C8's case: a 404 came back for a key that has a cached copy, and the
\* handler returned the 404, leaving the copy in place.
C8_Witness ==
    \E i \in TaskIds :
        /\ tasks[i].handler \in {"HTML", "DEFAULT"}
        /\ tasks[i].fetch.state = "resolved"
        /\ tasks[i].fetch.resp.status = 404
        /\ tasks[i].result = Fulfilled(tasks[i].fetch.resp)
        /\ tasks[i].nsAtReturn # Undefined
        /\ CurrentEntry(tasks[i]) = tasks[i].nsAtReturn

----------------------------------------------------------------------------
\* The classification as the specification words it: the path prefix /api/
\* gives API; else /assets/images/ gives IMAGE; else /assets/ gives ASSET;
\* else an Accept header containing text/html gives HTML; else DEFAULT.
UnderDir1(url, a) == Len(url.segs) >= 2 /\ url.segs[1] = a

UnderDir2(url, a, b) ==
    Len(url.segs) >= 3 /\ url.segs[1] = a /\ url.segs[2] = b

ClaimedClass(req) ==
    CASE UnderDir1(req.url, "api") -> "API"
      [] /\ ~UnderDir1(req.url, "api")
         /\ UnderDir2(req.url, "assets", "images") -> "IMAGE"
      [] /\ ~UnderDir1(req.url, "api")
         /\ ~UnderDir2(req.url, "assets", "images")
         /\ UnderDir1(req.url, "assets") -> "ASSET"
      [] /\ ~UnderDir1(req.url, "api")
         /\ ~UnderDir1(req.url, "assets")
         /\ req.accept.present
         /\ "text/html" \in Range(req.accept.types) -> "HTML"
      [] OTHER -> "DEFAULT"

\* C9, as claimed: every GET request is given exactly the handler of its
\* class.
C9_AsClaimed ==
    \A i \in TaskIds :
        tasks[i].req.method = "GET" =>
            /\ tasks[i].handler = ClaimedClass(tasks[i].req)
            /\ tasks[i].result.state # "none"

\* C9, amended: every GET request whose URL neither starts with
\* chrome-extension:// nor contains sockjs-node is given exactly the handler
\* of its class, and respondWith is called with that handler's promise.
C9_ClassifierPriority ==
    \A i \in TaskIds :
        /\ tasks[i].req.method = "GET"
        /\ tasks[i].req.url.scheme # "chrome-extension"
        /\ "sockjs-node" \notin Range(tasks[i].req.url.segs)
        => /\ tasks[i].handler = ClaimedClass(tasks[i].req)
           /\ tasks[i].pc = FirstPc(ClaimedClass(tasks[i].req))
           /\ tasks[i].result = Pending

\* C9's case: an /api/ request with an HTML Accept header went to the API
\* handler and a request without Accept header to the default strategy.
C9_Witness ==
    \E i, j \in TaskIds :
        /\ tasks[i].req = Request("GET", API_WIDGETS, HTML_ACCEPT)
        /\ tasks[i].handler = "API"
        /\ tasks[j].req = Request("GET", INDEX_HTML, NoHeader)
        /\ tasks[j].handler = "DEFAULT"

----------------------------------------------------------------------------
\* C10: for a request whose method is not GET the listener returns without
\* calling respondWith and without starting a handler: no cache store call
\* and no fetch is made for it, and no response is produced.
C10_NonGetBypassed ==
    \A i \in TaskIds :
        tasks[i].req.method # "GET" =>
            /\ tasks[i].handler = "NONE"
            /\ tasks[i].pc = "bypassed"
            /\ tasks[i].result = NoRespondWith
            /\ tasks[i].cacheOps = 0
            /\ tasks[i].cache = 0
            /\ tasks[i].fetch = NoFetch
            /\ tasks[i].put = "none"

\* C10's case: a POST went by untouched while a GET for the same URL was
\* answered from the network and cached.
C10_Witness ==
    \E i, j \in TaskIds :
        /\ tasks[i].req.method = "POST"
        /\ tasks[i].result = NoRespondWith
        /\ tasks[j].req.method = "GET"
        /\ Key(tasks[j]) = Key(tasks[i])
        /\ tasks[j].put = "done"

----------------------------------------------------------------------------
\* Version rotation: the activate handler step by step (src/sw.js:93-120),
\* next to the older worker script of the repository, service-worker.js
\* (src/unnamed/part_001), whose instances share the cache store.

MaxInstances == 1   \* later instances of this script in one behaviour

LEGACY_CACHE_NAME == "pwa-cache-v1"

\* service-worker.js, urlsToCache.
urlsToCache ==
    << ROOT, OFFLINE_HTML, Path(<<"manifest.json">>),
       Path(<<"assets", "images", "logo-72.png">>),
       Path(<<"assets", "images", "logo-96.png">>) >>

\* Namespaces an earlier deployment may have left behind.
OldNames == {LEGACY_CACHE_NAME, "pwa-cache-v1-9-0"}

NameSet(nm) == {nm[i].name : i \in DOMAIN nm}

\* caches.delete(name): the name goes, the Cache object stays for whoever
\* holds it.
DeleteName(nm, name) == SelectSeq(nm, LAMBDA c : c.name # name)

\* Buggy variant of the cleanup filter: nothing is found to delete.
DoomedNone(keys) == {}

\* The names the activate handler deletes, given what caches.keys() gave.
Doomed(keys) == {n \in keys : n # CACHE_NAME /\ n # OFFLINE_CACHE}

\* The names the older script's activate handler deletes.
LegacyDoomed(keys) == {n \in keys : n # LEGACY_CACHE_NAME}

\* The cleanup's record after some instance has opened name: a namespace
\* that came into being while the cleanup was under way is noted.
NoteCreated(name) ==
    IF activation.pc = "deleting" /\ ~HasName(names, name)
    THEN [activation EXCEPT !.created = @ \cup {name}]
    ELSE activation

\* caches.keys() resolves in the activate handler and the deletions start.
ActivateKeys ==
    /\ lifecycle = "installed"
    /\ activation.pc = "idle"
    /\ activation' = [activation EXCEPT !.pc = "deleting",
                                        !.keys = NameSet(names),
                                        !.todo = Doomed(NameSet(names))]
    /\ UNCHANGED <<lifecycle, names, objs, tasks, written, outbox, clears,
                   instances, legacy, msgs, queue, syncs, posts,
                   windows, matched, pushes>>

\* One caches.delete(cacheName) of the cleanup completes.
ActivateDelete(n) ==
    /\ activation.pc = "deleting"
    /\ n \in activation.todo
    /\ names' = DeleteName(names, n)
    /\ activation' = [activation EXCEPT !.todo = @ \ {n},
                                        !.deleted = @ \cup {n}]
    /\ UNCHANGED <<lifecycle, objs, tasks, written, outbox, clears,
                   instances, legacy, msgs, queue, syncs, posts,
                   windows, matched, pushes>>

\* Buggy variant of the activate handler: the pages are told as soon as
\* caches.keys() has resolved, without waiting for the deletions.
ActivateDoneBeforeDeletions ==
    /\ activation.pc = "deleting"
    /\ activation' = [activation EXCEPT
                        !.pc = "done",
                        !.left = NameSet(names) \ {CACHE_NAME, OFFLINE_CACHE}]
    /\ lifecycle' = "active"
    /\ outbox' = Append(outbox, [to |-> "clients", type |-> "SW_ACTIVATED",
                                 version |-> APP_VERSION])
    /\ UNCHANGED <<names, objs, tasks, written, clears,
                   instances, legacy, msgs, queue, syncs, posts,
                   windows, matched, pushes>>

\* Promise.all has resolved: the pages are told and the promise given to
\* waitUntil resolves. What the store holds at that moment is recorded.
ActivateDone ==
    /\ activation.pc = "deleting"
    /\ activation.todo = {}
    /\ activation' = [activation EXCEPT
                        !.pc = "done",
                        !.left = NameSet(names) \ {CACHE_NAME, OFFLINE_CACHE}]
    /\ lifecycle' = "active"
    /\ outbox' = Append(outbox, [to |-> "clients", type |-> "SW_ACTIVATED",
                                 version |-> APP_VERSION])
    /\ UNCHANGED <<names, objs, tasks, written, clears,
                   instances, legacy, msgs, queue, syncs, posts,
                   windows, matched, pushes>>

\* The browser starts a new instance of this script (a later registration
\* or update check): its install event is due.
NewInstance ==
    /\ lifecycle = "active"
    /\ instances < MaxInstances
    /\ instances' = instances + 1
    /\ lifecycle' = "parsed"
    /\ activation' = NoActivation
    /\ UNCHANGED <<names, objs, tasks, written, outbox, clears,
                   legacy, msgs, queue, syncs, posts,
                   windows, matched, pushes>>

\* The older script's install handler: the namespace is opened and
\* cache.addAll(urlsToCache) succeeds (ok = 1) or fails (0); its catch
\* swallows a failure.
LegacyInstall ==
    /\ legacy.state = "parsed"
    /\ \E ok \in {0, 1} :
        LET id == OpenId(names, objs, LEGACY_CACHE_NAME)
            o1 == OpenObjs(names, objs, LEGACY_CACHE_NAME)
        IN /\ names' = OpenNames(names, objs, LEGACY_CACHE_NAME)
           /\ objs' = IF ok = 0 THEN o1
                      ELSE [o1 EXCEPT ![id] = AddAll(@, urlsToCache, 1)]
    /\ activation' = NoteCreated(LEGACY_CACHE_NAME)
    /\ legacy' = [legacy EXCEPT !.state = "installed"]
    /\ UNCHANGED <<lifecycle, tasks, written, outbox, clears,
                   instances, msgs, queue, syncs, posts,
                   windows, matched, pushes>>

\* caches.keys() resolves in the older script's activate handler.
LegacyActivateKeys ==
    /\ legacy.state = "installed"
    /\ legacy' = [legacy EXCEPT !.state = "deleting",
                                !.todo = LegacyDoomed(NameSet(names))]
    /\ UNCHANGED <<lifecycle, names, objs, tasks, written, outbox, clears,
                   instances, activation, msgs, queue, syncs, posts,
                   windows, matched, pushes>>

\* One caches.delete(cacheName) of the older script's cleanup completes.
LegacyActivateDelete(n) ==
    /\ legacy.state = "deleting"
    /\ n \in legacy.todo
    /\ names' = DeleteName(names, n)
    /\ legacy' = [legacy EXCEPT !.todo = @ \ {n}]
    /\ UNCHANGED <<lifecycle, objs, tasks, written, outbox, clears,
                   instances, activation, msgs, queue, syncs, posts,
                   windows, matched, pushes>>

\* The older script's cleanup has resolved.
LegacyActivateDone ==
    /\ legacy.state = "deleting"
    /\ legacy.todo = {}
    /\ legacy' = [legacy EXCEPT !.state = "active"]
    /\ UNCHANGED <<lifecycle, names, objs, tasks, written, outbox, clears,
                   instances, activation, msgs, queue, syncs, posts,
                   windows, matched, pushes>>

\* A page the older script controls requests /api/widgets: caches.match
\* finds nothing and the request goes to the network.
LegacyFetchStart ==
    /\ legacy.state = "active"
    /\ legacy.fetch = "idle"
    /\ CachesMatch(names, objs, API_WIDGETS) = Undefined
    /\ legacy' = [legacy EXCEPT !.fetch = "fetching"]
    /\ UNCHANGED <<lifecycle, names, objs, tasks, written, outbox, clears,
                   instances, activation, msgs, queue, syncs, posts,
                   windows, matched, pushes>>

\* The response is a basic 200 and caches.open(CACHE_NAME) of the older
\* script completes, which brings the namespace into being if it is gone.
LegacyFetchOpen ==
    /\ legacy.fetch = "fetching"
    /\ names' = OpenNames(names, objs, LEGACY_CACHE_NAME)
    /\ objs' = OpenObjs(names, objs, LEGACY_CACHE_NAME)
    /\ activation' = NoteCreated(LEGACY_CACHE_NAME)
    /\ legacy' = [legacy EXCEPT !.fetch = "opened",
                                !.cache = OpenId(names, objs, LEGACY_CACHE_NAME)]
    /\ UNCHANGED <<lifecycle, tasks, written, outbox, clears,
                   instances, msgs, queue, syncs, posts,
                   windows, matched, pushes>>

\* cache.put(event.request, responseToCache) of the older script.
LegacyFetchPut ==
    /\ legacy.fetch = "opened"
    /\ objs' = IF legacy.cache \in DOMAIN objs
               THEN [objs EXCEPT ![legacy.cache] =
                        Store(@, API_WIDGETS, NetResponse(200, API_WIDGETS, 1))]
               ELSE objs
    /\ legacy' = [legacy EXCEPT !.fetch = "idle", !.cache = 0]
    /\ UNCHANGED <<lifecycle, names, tasks, written, outbox, clears,
                   instances, activation, msgs, queue, syncs, posts,
                   windows, matched, pushes>>

\* What an earlier deployment stored under a name.
OldContent(name) ==
    IF name = OFFLINE_CACHE
    THEN Store(<< >>, OFFLINE_HTML, NetResponse(200, OFFLINE_HTML, 1))
    ELSE IF name = LEGACY_CACHE_NAME THEN AddAll(<< >>, urlsToCache, 1)
    ELSE AddAll(<< >>, <<ROOT>>, 1)

\* Any set of namespaces may exist when this script's first instance
\* starts; the older script is about to install or is in control already.
RotationInit ==
    /\ lifecycle = "parsed"
    /\ \E S \in SUBSET (OldNames \cup {OFFLINE_CACHE}) :
        LET present == SelectSeq(<<LEGACY_CACHE_NAME, "pwa-cache-v1-9-0", OFFLINE_CACHE>>,
                                 LAMBDA n : n \in S)
        IN /\ names = [i \in DOMAIN present |-> [name |-> present[i], id |-> i]]
           /\ objs = [i \in DOMAIN present |-> OldContent(present[i])]
    /\ tasks = << >>
    /\ written = {}
    /\ outbox = << >>
    /\ clears = 0
    /\ instances = 0
    /\ activation = NoActivation
    /\ legacy \in {[NoLegacy EXCEPT !.state = st] : st \in {"parsed", "active"}}
    /\ msgs = << >>
    /\ queue = << >>
    /\ syncs = << >>
    /\ posts = << >>
    /\ windows = << >>
    /\ matched = 0
    /\ pushes = << >>

RotationNext ==
    \/ Install
    \/ ActivateKeys
    \/ \E n \in activation.todo : ActivateDelete(n)
    \/ ActivateDone
    \/ NewInstance
    \/ LegacyInstall
    \/ LegacyActivateKeys
    \/ \E n \in legacy.todo : LegacyActivateDelete(n)
    \/ LegacyActivateDone
    \/ LegacyFetchStart
    \/ LegacyFetchOpen
    \/ LegacyFetchPut

RotationSpec == RotationInit /\ [][RotationNext]_vars

----------------------------------------------------------------------------
\* C11, as claimed: when the promise the activate handler gave to waitUntil
\* has resolved, the store holds no namespace other than the current-version
\* and the offline namespace, also when other instances interleave.
C11_AsClaimed ==
    activation.pc = "done" => activation.left = {}

\* C11, amended: when that promise resolves, every namespace that
\* caches.keys() listed, other than the current-version and the offline
\* namespace, has been deleted; a namespace the store still holds beyond
\* those two is one that another instance brought into being after
\* caches.keys() was read.
C11_ActivateEvictsListed ==
    activation.pc = "done" =>
        /\ activation.deleted = activation.keys \ {CACHE_NAME, OFFLINE_CACHE}
        /\ activation.left \subseteq activation.created

\* C11's case: two old namespaces were listed and deleted while the older
\* script was serving a request, and only the two namespaces remain.
C11_Witness ==
    /\ activation.pc = "done"
    /\ activation.deleted = OldNames
    /\ activation.left = {}
    /\ legacy.fetch # "idle"
    /\ NameSet(names) = {CACHE_NAME, OFFLINE_CACHE}

----------------------------------------------------------------------------
\* The offline namespace's /offline.html entry in store (nm, ob).
OfflineEntry(nm, ob) == Lookup(Namespace(nm, ob, OFFLINE_CACHE), OFFLINE_HTML)

\* C12, as claimed: no install or activate step of either script deletes the
\* offline namespace: once it exists with its /offline.html entry, it still
\* exists with that entry after the step.
C12_AsClaimed ==
    [][OfflineEntry(names, objs) # Undefined =>
          /\ HasName(names', OFFLINE_CACHE)
          /\ OfflineEntry(names', objs') # Undefined]_vars

----------------------------------------------------------------------------
\* Every URL of the manifest is stored in the current-version namespace and
\* the offline page in the offline namespace of store (nm, ob).
Precached(nm, ob) ==
    /\ \A k \in Range(PRECACHE_ASSETS) :
          Lookup(Namespace(nm, ob, CACHE_NAME), k) # Undefined
    /\ OfflineEntry(nm, ob) # Undefined

\* C13, as claimed: an install during which the fetch of a manifest URL or
\* of the offline page failed does not bring the instance to the installed
\* state: an instance gets there only with everything stored.
C13_AsClaimed ==
    [][lifecycle = "parsed" /\ lifecycle' = "installed" =>
          Precached(names', objs')]_vars

----------------------------------------------------------------------------
\* C14: an install of a later instance, with the manifest and the network
\* content unchanged, leaves every entry the current-version and the
\* offline namespace held equal in value to what it was.
C14_InstallIdempotent ==
    [][lifecycle = "parsed" /\ lifecycle' = "installed" =>
          \A name \in {CACHE_NAME, OFFLINE_CACHE} :
              \A k \in DOMAIN Namespace(names, objs, name) :
                  Lookup(Namespace(names', objs', name), k)
                      = Namespace(names, objs, name)[k]]_vars

\* C14's case: a second instance has run its install on a store the first
\* one had filled, and both namespaces hold the same complete content.
C14_Witness ==
    /\ instances = 1
    /\ lifecycle = "installed"
    /\ Precached(names, objs)
    /\ Namespace(names, objs, CACHE_NAME) = AddAll(<< >>, PRECACHE_ASSETS, 1)
    /\ OfflineEntry(names, objs) = NetResponse(200, OFFLINE_HTML, 1)

----------------------------------------------------------------------------
\* Control messages (src/sw.js:482-551). Every message comes with its own
\* port; the replies posted on it are kept in the message's record.

MaxMsgs == 2        \* control messages in one behaviour

\* The urls field of an UPDATE_ASSETS message: missing, or a list.
NoUrls == [present |-> FALSE, list |-> << >>]
Urls(list) == [present |-> TRUE, list |-> list]

UrlLists ==
    { << >>, <<STYLES_CSS>>, <<STYLES_CSS, API_WIDGETS>>,
      <<API_WIDGETS, STYLES_CSS>> }

\* A message event: whether event.data is there, its type and urls fields,
\* and whether the sender passed a port (event.ports[0]).
MessageEvent(data, type, urls, port) ==
    [data |-> data, type |-> type, urls |-> urls, port |-> port]

\* The messages the pages of the application send: all carry a port.
Messages ==
    {MessageEvent(TRUE, t, NoUrls, TRUE) :
        t \in {"SKIP_WAITING", "GET_CACHE_INFO", "CLEAR_CACHE", "UPDATE_ASSETS"}}
    \cup {MessageEvent(TRUE, "UPDATE_ASSETS", Urls(l), TRUE) : l \in UrlLists}

\* event.ports[0].postMessage({cacheName, version}).
CacheInfoReply == [cacheName |-> CACHE_NAME, version |-> APP_VERSION]

\* event.ports[0].postMessage({success: true}).
ClearReply == [success |-> TRUE]

\* One entry of updateAssets' result list.
Updated(url) == [url |-> url, status |-> "updated"]
Failed(url, error) == [url |-> url, status |-> "failed", error |-> error]

\* Where handling starts for each message type; for those that finish in
\* the listener itself, where it ends.
MsgFirstPc(type) ==
    CASE type = "CLEAR_CACHE" -> "clear_keys"
      [] type = "UPDATE_ASSETS" -> "update_open"
      [] OTHER -> "done"

\* The listener's synchronous part throws a TypeError: event.data.type
\* when event.data is missing (line 485), event.ports[0].postMessage when a
\* GET_CACHE_INFO message came without a port (line 491).
ListenerThrows(m) == ~m.data \/ (m.type = "GET_CACHE_INFO" /\ ~m.port)

NewMsg(m) ==
    [ data |-> m.data,
      type |-> m.type,
      urls |-> m.urls,
      port |-> m.port,
      pc |-> IF ListenerThrows(m) THEN "threw" ELSE MsgFirstPc(m.type),
      replies |-> IF m.type = "GET_CACHE_INFO" /\ ~ListenerThrows(m)
                  THEN <<CacheInfoReply>> ELSE << >>,
      keys |-> {},                  \* what caches.keys() listed
      todo |-> {},                  \* deletions not completed yet
      deleted |-> {},               \* deletions completed
      failed |-> FALSE,             \* a deletion rejected
      cache |-> 0,                  \* the Cache object updateAssets opened
      idx |-> 1,                    \* the URL the loop is at
      fetched |-> Undefined,        \* the response being put
      results |-> << >>,            \* updateAssets' result list so far
      log |-> << >> ]               \* history: what happened to each URL

\* The message listener runs for message m.
Message(m) ==
    /\ lifecycle = "active"
    /\ Len(msgs) < MaxMsgs
    /\ msgs' = Append(msgs, NewMsg(m))
    /\ UNCHANGED <<lifecycle, names, objs, tasks, written, outbox, clears,
                   instances, activation, legacy, queue, syncs, posts,
                   windows, matched, pushes>>

\* The then-callback of lines 498-500 and 504-506 runs with reply:
\* event.ports[0].postMessage(reply). Without a port it throws a TypeError
\* inside the callback, a rejection that nothing handles.
PostReply(m, reply) ==
    IF m.port THEN [m EXCEPT !.pc = "done", !.replies = Append(@, reply)]
    ELSE [m EXCEPT !.pc = "rejected"]

\* clearCache, buggy variant: the offline namespace is spared.
ClearDoomedSparingOffline(keys) == keys \ {OFFLINE_CACHE}

\* The names clearCache deletes, given what caches.keys() gave: all.
ClearDoomed(keys) == keys

\* await caches.keys() completes in clearCache and the deletions start.
ClearKeys(i) ==
    /\ msgs[i].pc = "clear_keys"
    /\ msgs' = [msgs EXCEPT ![i] =
                  [@ EXCEPT !.pc = "clear_deleting",
                            !.keys = NameSet(names),
                            !.todo = ClearDoomed(NameSet(names))]]
    /\ UNCHANGED <<lifecycle, names, objs, tasks, written, outbox, clears,
                   instances, activation, legacy, queue, syncs, posts,
                   windows, matched, pushes>>

\* One caches.delete(name) of clearCache completes.
ClearDelete(i, n) ==
    /\ msgs[i].pc = "clear_deleting"
    /\ n \in msgs[i].todo
    /\ names' = DeleteName(names, n)
    /\ msgs' = [msgs EXCEPT ![i] =
                  [@ EXCEPT !.todo = @ \ {n}, !.deleted = @ \cup {n}]]
    /\ UNCHANGED <<lifecycle, objs, tasks, written, outbox, clears,
                   instances, activation, legacy, queue, syncs, posts,
                   windows, matched, pushes>>

\* One caches.delete(name) of clearCache rejects: Promise.all rejects, and
\* so does clearCache; the other deletions run on.
ClearDeleteFails(i, n) ==
    /\ msgs[i].pc = "clear_deleting"
    /\ n \in msgs[i].todo
    /\ msgs' = [msgs EXCEPT ![i] = [@ EXCEPT !.todo = @ \ {n}, !.failed = TRUE]]
    /\ UNCHANGED <<lifecycle, names, objs, tasks, written, outbox, clears,
                   instances, activation, legacy, queue, syncs, posts,
                   windows, matched, pushes>>

\* Every deletion has settled. If all of them resolved, clearCache resolves
\* and the then-callback posts the reply; if one rejected, nothing handles
\* the rejection and nothing is posted.
ClearSettled(i) ==
    /\ msgs[i].pc = "clear_deleting"
    /\ msgs[i].todo = {}
    /\ msgs' = [msgs EXCEPT ![i] =
                  IF msgs[i].failed
                  THEN [@ EXCEPT !.pc = "rejected"]
                  ELSE PostReply(@, ClearReply)]
    /\ UNCHANGED <<lifecycle, names, objs, tasks, written, outbox, clears,
                   instances, activation, legacy, queue, syncs, posts,
                   windows, matched, pushes>>

\* The URL updateAssets' loop is at.
UrlAt(m) == m.urls.list[m.idx]

\* What happened to one URL of the list.
UrlLog(url, resp, threw, put, landed) ==
    [url |-> url, fetch |-> resp, threw |-> threw, put |-> put, landed |-> landed]

\* Buggy variant of the loop: it ends at the first URL that fails.
UpdateStepStopAtFailure(m, entry, logrec) ==
    LET r == Append(m.results, entry)
        last == m.idx = Len(m.urls.list) \/ entry.status = "failed"
        m1 == [m EXCEPT !.results = r,
                        !.log = Append(@, logrec),
                        !.idx = @ + 1,
                        !.fetched = Undefined]
    IN IF last THEN PostReply(m1, r) ELSE [m1 EXCEPT !.pc = "update_fetch"]

\* results.push(entry) and the loop goes to the next URL; after the last
\* one updateAssets returns the list and the then-callback posts it.
UpdateStep(m, entry, logrec) ==
    LET r == Append(m.results, entry)
        last == m.idx = Len(m.urls.list)
        m1 == [m EXCEPT !.results = r,
                        !.log = Append(@, logrec),
                        !.idx = @ + 1,
                        !.fetched = Undefined]
    IN IF last THEN PostReply(m1, r) ELSE [m1 EXCEPT !.pc = "update_fetch"]

\* await caches.open(CACHE_NAME) completes in updateAssets and the loop
\* starts: over a missing urls field it throws a TypeError that nothing
\* handles, over an empty list it ends at once.
UpdateOpen(i) ==
    /\ msgs[i].pc = "update_open"
    /\ names' = OpenNames(names, objs, CACHE_NAME)
    /\ objs' = OpenObjs(names, objs, CACHE_NAME)
    /\ msgs' = [msgs EXCEPT ![i] =
                  LET m == [@ EXCEPT !.cache = OpenId(names, objs, CACHE_NAME)]
                  IN IF ~m.urls.present THEN [m EXCEPT !.pc = "rejected"]
                     ELSE IF m.urls.list = << >>
                          THEN PostReply(m, m.results)
                          ELSE [m EXCEPT !.pc = "update_fetch"]]
    /\ UNCHANGED <<lifecycle, tasks, written, outbox, clears,
                   instances, activation, legacy, queue, syncs, posts,
                   windows, matched, pushes>>

\* await fetch(url) resolves with r.
UpdateFetchResolves(i, r) ==
    /\ msgs[i].pc = "update_fetch"
    /\ msgs' = [msgs EXCEPT ![i] =
                  IF Ok(r)
                  THEN [@ EXCEPT !.pc = "update_put", !.fetched = r]
                  ELSE UpdateStep(@, Failed(UrlAt(@), "Network error"),
                                  UrlLog(UrlAt(@), r, FALSE, "none", FALSE))]
    /\ UNCHANGED <<lifecycle, names, objs, tasks, written, outbox, clears,
                   instances, activation, legacy, queue, syncs, posts,
                   windows, matched, pushes>>

\* await fetch(url) rejects: the catch records the URL as failed.
UpdateFetchThrows(i) ==
    /\ msgs[i].pc = "update_fetch"
    /\ msgs' = [msgs EXCEPT ![i] =
                  UpdateStep(@, Failed(UrlAt(@), "Failed to fetch"),
                             UrlLog(UrlAt(@), Undefined, TRUE, "none", FALSE))]
    /\ UNCHANGED <<lifecycle, names, objs, tasks, written, outbox, clears,
                   instances, activation, legacy, queue, syncs, posts,
                   windows, matched, pushes>>

\* await cache.put(url, response) completes, through the Cache object the
\* handler opened.
UpdatePut(i) ==
    /\ msgs[i].pc = "update_put"
    /\ LET m == msgs[i]
           no == [objs EXCEPT ![m.cache] = Store(@, UrlAt(m), m.fetched)]
       IN /\ objs' = no
          /\ msgs' = [msgs EXCEPT ![i] =
                        UpdateStep(m, Updated(UrlAt(m)),
                                   UrlLog(UrlAt(m), m.fetched, FALSE, "done",
                                          Lookup(Namespace(names, no, CACHE_NAME),
                                                 UrlAt(m)) = m.fetched))]
    /\ UNCHANGED <<lifecycle, names, tasks, written, outbox, clears,
                   instances, activation, legacy, queue, syncs, posts,
                   windows, matched, pushes>>

\* await cache.put(url, response) rejects (the store refuses the write):
\* the catch records the URL as failed.
UpdatePutFails(i) ==
    /\ msgs[i].pc = "update_put"
    /\ msgs' = [msgs EXCEPT ![i] =
                  UpdateStep(@, Failed(UrlAt(@), "QuotaExceededError"),
                             UrlLog(UrlAt(@), @.fetched, FALSE, "failed", FALSE))]
    /\ UNCHANGED <<lifecycle, names, objs, tasks, written, outbox, clears,
                   instances, activation, legacy, queue, syncs, posts,
                   windows, matched, pushes>>

\* The worker is installed and active, its two namespaces filled.
MessageInit == ListenerInit

MessageNext ==
    \/ \E m \in Messages : Message(m)
    \/ \E i \in DOMAIN msgs : ClearKeys(i)
    \/ \E i \in DOMAIN msgs : \E n \in msgs[i].todo : ClearDelete(i, n)
    \/ \E i \in DOMAIN msgs : \E n \in msgs[i].todo : ClearDeleteFails(i, n)
    \/ \E i \in DOMAIN msgs : ClearSettled(i)
    \/ \E i \in DOMAIN msgs : UpdateOpen(i)
    \/ \E i \in {j \in DOMAIN msgs : msgs[j].pc = "update_fetch"} :
          \E r \in NetResponses(UrlAt(msgs[i])) : UpdateFetchResolves(i, r)
    \/ \E i \in DOMAIN msgs : UpdateFetchThrows(i)
    \/ \E i \in DOMAIN msgs : UpdatePut(i)
    \/ \E i \in DOMAIN msgs : UpdatePutFails(i)

MessageSpec == MessageInit /\ [][MessageNext]_vars

----------------------------------------------------------------------------
\* The entry CACHE_NAME holds now for key.
CurrentEntryOf(key) == Lookup(Namespace(names, objs, CACHE_NAME), key)

\* The control messages of one type.
MsgsOf(type) == {i \in DOMAIN msgs : msgs[i].type = type}

\* The handling of a message has come to its end.
Ended(m) == m.pc \in {"done", "rejected"}

\* C15: a reply on a CLEAR_CACHE message's port is {success: true}, and it
\* is posted only when every namespace caches.keys() listed has been
\* deleted, the current-version and the offline namespace included; until
\* the last deletion has completed nothing is posted.
C15_ClearDeletesAllThenReplies ==
    \A i \in MsgsOf("CLEAR_CACHE") :
        /\ msgs[i].replies # << >> =>
              /\ msgs[i].replies = <<ClearReply>>
              /\ msgs[i].deleted = msgs[i].keys
              /\ msgs[i].todo = {}
        /\ msgs[i].todo # {} => msgs[i].replies = << >>
        /\ msgs[i].todo \cup msgs[i].deleted \subseteq msgs[i].keys
        /\ msgs[i].pc = "done" => msgs[i].replies # << >>

\* C15's case: both namespaces existed, both were deleted, the store is
\* empty and the reply has been posted.
C15_Witness ==
    \E i \in MsgsOf("CLEAR_CACHE") :
        /\ msgs[i].keys = {CACHE_NAME, OFFLINE_CACHE}
        /\ msgs[i].deleted = {CACHE_NAME, OFFLINE_CACHE}
        /\ msgs[i].replies = <<ClearReply>>
        /\ names = << >>

----------------------------------------------------------------------------
\* C16, as claimed: when the handling of a control message has ended,
\* exactly one reply has been posted on the port of a GET_CACHE_INFO,
\* CLEAR_CACHE or UPDATE_ASSETS message, whatever the cache and network
\* operations did, and none on the port of a SKIP_WAITING message.
C16_AsClaimed ==
    \A i \in DOMAIN msgs :
        Ended(msgs[i]) =>
            Len(msgs[i].replies) = IF msgs[i].type = "SKIP_WAITING" THEN 0 ELSE 1

----------------------------------------------------------------------------
\* An UPDATE_ASSETS message that carries a list and whose handling is over.
UpdatesDone ==
    {i \in MsgsOf("UPDATE_ASSETS") : msgs[i].urls.present /\ msgs[i].pc = "done"}

\* The fetch of the URL logged in l returned a 2xx response.
Fetched2xx(l) == ~l.threw /\ l.fetch # Undefined /\ In2xx(l.fetch.status)

\* The result list has one entry per URL of the list, in the list's order.
OnePerUrl(m) ==
    /\ Len(m.results) = Len(m.urls.list)
    /\ Len(m.log) = Len(m.urls.list)
    /\ \A j \in DOMAIN m.results :
          /\ m.results[j].url = m.urls.list[j]
          /\ m.log[j].url = m.urls.list[j]
          /\ m.results[j].status \in {"updated", "failed"}

\* C17, as claimed: one entry per URL in order, 'updated' exactly when the
\* URL's fetch returned 2xx and its entry was written to the
\* current-version namespace, 'failed' otherwise.
C17_AsClaimed ==
    \A i \in UpdatesDone :
        /\ OnePerUrl(msgs[i])
        /\ \A j \in DOMAIN msgs[i].results :
              msgs[i].results[j].status = "updated"
                  <=> Fetched2xx(msgs[i].log[j]) /\ msgs[i].log[j].landed

\* C17, amended: one entry per URL in order, 'updated' exactly when the
\* URL's fetch returned 2xx and the put through the Cache object opened at
\* the start completed, 'failed' otherwise; the reply is that list. The
\* entry shows in the current-version namespace unless the namespace was
\* deleted after updateAssets opened it.
C17_ResultPerUrl ==
    \A i \in UpdatesDone :
        /\ OnePerUrl(msgs[i])
        /\ msgs[i].replies = <<msgs[i].results>>
        /\ \A j \in DOMAIN msgs[i].results :
              /\ msgs[i].results[j].status = "updated"
                    <=> Fetched2xx(msgs[i].log[j]) /\ msgs[i].log[j].put = "done"
              /\ msgs[i].log[j].landed => msgs[i].results[j].status = "updated"
              /\ msgs[i].results[j].status = "updated" /\ ~msgs[i].log[j].landed
                    => \E k \in MsgsOf("CLEAR_CACHE") : CACHE_NAME \in msgs[k].deleted

\* A step in which updateAssets records a URL as failed writes nothing.
C17_FailureWritesNothing ==
    \A i \in DOMAIN msgs :
        /\ i \in DOMAIN msgs'
        /\ Len(msgs'[i].results) = Len(msgs[i].results) + 1
        /\ msgs'[i].results[Len(msgs'[i].results)].status = "failed"
        => objs' = objs /\ names' = names

\* C17, amended, with its frame: the result list is as stated in every
\* state, and no failing URL changes any entry.
C17_UpdateAssetsPerUrl ==
    []C17_ResultPerUrl /\ [][C17_FailureWritesNothing]_vars

\* C17's case: the first URL failed with a 404, the second was fetched and
\* written, and the list says so in that order.
C17_Witness ==
    \E i \in UpdatesDone :
        /\ msgs[i].urls.list = <<STYLES_CSS, API_WIDGETS>>
        /\ msgs[i].results = <<Failed(STYLES_CSS, "Network error"), Updated(API_WIDGETS)>>
        /\ msgs[i].log[1].fetch.status = 404
        /\ msgs[i].log[2].landed
        /\ CurrentEntryOf(API_WIDGETS) = msgs[i].log[2].fetch
        /\ CurrentEntryOf(STYLES_CSS) = NetResponse(200, STYLES_CSS, 1)

----------------------------------------------------------------------------
\* Background sync (src/sw.js:337-384). The pages fill the object store
\* pending_posts; nothing in the worker adds to it.

MaxSyncs == 2       \* sync events in one behaviour
MaxItems == 2       \* items the pages have queued

\* The tags the browser may fire: the two the listener knows and another.
SyncTags == {"sync-posts", "sync-settings", "sync-other"}

Item(id, data) == [id |-> id, data |-> data]

\* What pending_posts may hold when the worker starts: up to MaxItems items
\* in key order.
Queues ==
    UNION { { [j \in 1..n |-> Item(j, d[j])] : d \in [1..n -> {"a", "b"}] }
            : n \in 0..MaxItems }

\* Buggy variant of the listener: every tag but 'sync-settings' is taken
\* for 'sync-posts'.
SyncFirstPcPostsByDefault(tag) ==
    CASE tag = "sync-settings" -> "settings_read"
      [] OTHER -> "posts_open"

\* Where handling starts for each tag; an unknown tag is ignored.
SyncFirstPc(tag) ==
    CASE tag = "sync-posts" -> "posts_open"
      [] tag = "sync-settings" -> "settings_read"
      [] OTHER -> "done"

\* The sync listener runs for tag; seen is what the queue held then.
SyncEvent(tag) ==
    /\ lifecycle = "active"
    /\ Len(syncs) < MaxSyncs
    /\ syncs' = Append(syncs, [tag |-> tag, pc |-> SyncFirstPc(tag),
                               error |-> "none", seen |-> queue])
    /\ UNCHANGED <<lifecycle, names, objs, tasks, written, outbox, clears,
                   instances, activation, legacy, msgs, queue, posts,
                   windows, matched, pushes>>

\* await openDatabase() completes in syncPendingPosts with the IDBDatabase
\* that indexedDB.open gave. The next expression, db.getAll('pending_posts'),
\* calls a method an IDBDatabase does not have: a TypeError is thrown
\* outside any try block and the promise given to waitUntil rejects. The
\* loop over the items (src/sw.js:353-368) is never entered.
PostsOpenDb(i) ==
    /\ syncs[i].pc = "posts_open"
    /\ syncs' = [syncs EXCEPT ![i] =
                    [@ EXCEPT !.pc = "rejected", !.error = "TypeError"]]
    /\ UNCHANGED <<lifecycle, names, objs, tasks, written, outbox, clears,
                   instances, activation, legacy, msgs, queue, posts,
                   windows, matched, pushes>>

\* await openDatabase() rejects (request.onerror).
PostsOpenDbFails(i) ==
    /\ syncs[i].pc = "posts_open"
    /\ syncs' = [syncs EXCEPT ![i] =
                    [@ EXCEPT !.pc = "rejected", !.error = "DOMException"]]
    /\ UNCHANGED <<lifecycle, names, objs, tasks, written, outbox, clears,
                   instances, activation, legacy, msgs, queue, posts,
                   windows, matched, pushes>>

\* await getSettingsFromIndexedDB() completes in syncSettings and the PUT
\* is sent.
SettingsRead(i) ==
    /\ syncs[i].pc = "settings_read"
    /\ syncs' = [syncs EXCEPT ![i] = [@ EXCEPT !.pc = "settings_put"]]
    /\ UNCHANGED <<lifecycle, names, objs, tasks, written, outbox, clears,
                   instances, activation, legacy, msgs, queue, posts,
                   windows, matched, pushes>>

\* await getSettingsFromIndexedDB() rejects, outside the try block.
SettingsReadFails(i) ==
    /\ syncs[i].pc = "settings_read"
    /\ syncs' = [syncs EXCEPT ![i] =
                    [@ EXCEPT !.pc = "rejected", !.error = "DOMException"]]
    /\ UNCHANGED <<lifecycle, names, objs, tasks, written, outbox, clears,
                   instances, activation, legacy, msgs, queue, posts,
                   windows, matched, pushes>>

\* The PUT /api/settings is answered with status; the answer is not looked
\* at.
SettingsPutResolves(i, status) ==
    /\ syncs[i].pc = "settings_put"
    /\ syncs' = [syncs EXCEPT ![i] = [@ EXCEPT !.pc = "done"]]
    /\ posts' = Append(posts, [run |-> i, method |-> "PUT",
                               url |-> Path(<<"api", "settings">>),
                               body |-> "settings", status |-> status])
    /\ UNCHANGED <<lifecycle, names, objs, tasks, written, outbox, clears,
                   instances, activation, legacy, msgs, queue,
                   windows, matched, pushes>>

\* The PUT /api/settings throws; the catch logs it.
SettingsPutThrows(i) ==
    /\ syncs[i].pc = "settings_put"
    /\ syncs' = [syncs EXCEPT ![i] = [@ EXCEPT !.pc = "done"]]
    /\ UNCHANGED <<lifecycle, names, objs, tasks, written, outbox, clears,
                   instances, activation, legacy, msgs, queue, posts,
                   windows, matched, pushes>>

\* The worker is installed and active; the pages have queued some items.
SyncInit ==
    /\ lifecycle = "active"
    /\ names = << [name |-> CACHE_NAME, id |-> 1], [name |-> OFFLINE_CACHE, id |-> 2] >>
    /\ objs = << AddAll(<< >>, PRECACHE_ASSETS, 1),
                 Store(<< >>, OFFLINE_HTML, NetResponse(200, OFFLINE_HTML, 1)) >>
    /\ tasks = << >>
    /\ written = {}
    /\ outbox = << [to |-> "clients", type |-> "SW_ACTIVATED", version |-> APP_VERSION] >>
    /\ clears = 0
    /\ instances = 0
    /\ activation = NoActivation
    /\ legacy = NoLegacy
    /\ msgs = << >>
    /\ queue \in Queues
    /\ syncs = << >>
    /\ posts = << >>
    /\ windows = << >>
    /\ matched = 0
    /\ pushes = << >>

SyncNext ==
    \/ \E tag \in SyncTags : SyncEvent(tag)
    \/ \E i \in DOMAIN syncs : PostsOpenDb(i)
    \/ \E i \in DOMAIN syncs : PostsOpenDbFails(i)
    \/ \E i \in DOMAIN syncs : SettingsRead(i)
    \/ \E i \in DOMAIN syncs : SettingsReadFails(i)
    \/ \E i \in DOMAIN syncs : \E status \in NetStatuses : SettingsPutResolves(i, status)
    \/ \E i \in DOMAIN syncs : SettingsPutThrows(i)

SyncSpec == SyncInit /\ [][SyncNext]_vars

----------------------------------------------------------------------------
\* The sync-posts runs that have come to their end.
PostRunsEnded ==
    {i \in DOMAIN syncs :
        syncs[i].tag = "sync-posts" /\ syncs[i].pc \in {"done", "rejected"}}

\* The POSTs of run i that carried data, in the order they were answered.
PostsOf(i, data) ==
    SelectSeq(posts, LAMBDA p : p.run = i /\ p.method = "POST" /\ p.body = data)

PostsOfRun(i) == SelectSeq(posts, LAMBDA p : p.run = i /\ p.method = "POST")

InQueue(item) == \E j \in DOMAIN queue : queue[j] = item

C19_AsClaimed ==
    \A i \in PostRunsEnded :
        LET sent == PostsOfRun(i)
        IN /\ Len(sent) = Len(syncs[i].seen)
           /\ \A j \in DOMAIN sent : sent[j].body = syncs[i].seen[j].data

\* C20, as claimed, in its finite form: after a sync-posts run in which the
\* network refused no POST, no item the queue held at its start is left in
\* the queue.
C20_AsClaimed ==
    \A i \in PostRunsEnded :
        (\A k \in DOMAIN posts :
            posts[k].run = i /\ posts[k].method = "POST" => In2xx(posts[k].status))
        => \A j \in DOMAIN syncs[i].seen : ~InQueue(syncs[i].seen[j])

----------------------------------------------------------------------------
\* The fetch an API handler left behind when the timer won has resolved
\* with a 2xx response, and the handler has run to its end: no step of the
\* request is left to take (ApiLateFetch attaches no continuation to the
\* response, lines 176-181).
ApiLateSuccess(t) ==
    /\ t.handler = "API"
    /\ t.timedOut
    /\ t.pc = "done"
    /\ t.fetch.state = "resolved"
    /\ In2xx(t.fetch.resp.status)

\* C21, as claimed: when the timer fires before the API fetch settles and
\* the fetch later completes with a 2xx response, that late response is
\* written to the cache under the request's key. Stated on the states in
\* which the request has no step left: by then the write has been made.
C21_AsClaimed ==
    \A i \in TaskIds :
        ApiLateSuccess(tasks[i]) =>
            <<Key(tasks[i]), tasks[i].fetch.resp>> \in written

----------------------------------------------------------------------------
\* The image strategy on its own (src/sw.js:214-246), with an image the
\* install handler precaches and one it does not: the second can be missing
\* from the cache while /assets/images/fallback.jpg is there.

ImageRequests ==
    { Request("GET", LOGO_SVG, NoHeader),
      Request("GET", Path(<<"assets", "images", "photo.jpg">>), NoHeader) }

ImageNext ==
    \/ Install
    \/ Activate
    \/ ClearCache
    \/ \E req \in ImageRequests : FetchEvent(req)
    \/ \E i \in DOMAIN tasks : ImageOpen(i)
    \/ \E i \in DOMAIN tasks : ImageMatch(i)
    \/ \E i \in DOMAIN tasks : \E r \in NetResponses(Key(tasks[i])) : ImageFetchResolves(i, r)
    \/ \E i \in DOMAIN tasks : ImageFetchThrows(i)
    \/ \E i \in DOMAIN tasks : ImageFallback(i)
    \/ \E i \in DOMAIN tasks : BackgroundPut(i)

ImageSpec == Init /\ [][ImageNext]_vars

\* An IMAGE request whose cache.match found nothing.
ImageMiss(t) == t.handler = "IMAGE" /\ t.hit = "miss"

\* A stored response for /assets/images/fallback.jpg.
IsFallbackEntry(v) ==
    /\ v.type = "network"
    /\ v.url = FALLBACK_JPG
    /\ In2xx(v.status)

\* C22, as claimed: for an IMAGE request with no cached entry, a 2xx
\* response of the foreground fetch is returned and, once its put is made,
\* is the current-version namespace's entry for the key; when the fetch
\* throws, the response returned is the stored fallback image.
C22_AsClaimed ==
    \A i \in TaskIds :
        ImageMiss(tasks[i]) /\ Settled(tasks[i]) =>
            /\ tasks[i].fetch.state = "resolved" /\ In2xx(tasks[i].fetch.resp.status) =>
                 /\ tasks[i].result = Fulfilled(tasks[i].fetch.resp)
                 /\ tasks[i].put = "done" => tasks[i].landed
            /\ tasks[i].fetch.state = "threw" /\ tasks[i].pc = "done" =>
                 /\ tasks[i].result.state = "fulfilled"
                 /\ IsFallbackEntry(tasks[i].result.value)

\* C22, amended, the state part: an IMAGE request with no entry in the
\* Cache object the handler opened returns the network response whatever
\* its status; a 2xx one is put (not awaited) through that Cache object, so
\* it shows in the current-version namespace unless the namespace was
\* deleted after the open, and any other status is not put. When the fetch
\* throws, the handler returns a stored fallback image or undefined.
C22_ImageMissOutcome ==
    \A i \in TaskIds :
        ImageMiss(tasks[i]) /\ Settled(tasks[i]) =>
            /\ tasks[i].fetch.state = "resolved" =>
                 /\ tasks[i].result = Fulfilled(tasks[i].fetch.resp)
                 /\ In2xx(tasks[i].fetch.resp.status) <=> tasks[i].put # "none"
                 /\ tasks[i].put = "done" =>
                      /\ <<Key(tasks[i]), tasks[i].fetch.resp>> \in written
                      /\ ~tasks[i].putDetached => tasks[i].landed
            /\ tasks[i].fetch.state = "threw" /\ tasks[i].pc = "done" =>
                 /\ tasks[i].result.state = "fulfilled"
                 /\ tasks[i].put = "none"
                 /\ \/ tasks[i].result.value = Undefined
                    \/ IsFallbackEntry(tasks[i].result.value)

\* C22, amended, the step part: what the catch block returns is what
\* caches.match('/assets/images/fallback.jpg') finds at that moment, the
\* entry of the first namespace in creation order that holds one and
\* undefined when none does.
C22_FallbackIsCachesMatch ==
    \A i \in TaskIds :
        tasks[i].pc = "image_fallback" /\ tasks'[i].pc = "done" =>
            tasks'[i].result = Fulfilled(CachesMatch(names, objs, FALLBACK_JPG))

\* C22, amended.
C22_ImageMissNetworkThenFallback ==
    []C22_ImageMissOutcome /\ [][C22_FallbackIsCachesMatch]_vars

\* C22's cases: one image request missed, its fetch threw and it got the
\* stored fallback image; another missed, fetched a 2xx response and its put
\* landed in the current-version namespace.
C22_Witness ==
    \E i, j \in TaskIds :
        /\ ImageMiss(tasks[i])
        /\ tasks[i].fetch.state = "threw"
        /\ tasks[i].result.state = "fulfilled"
        /\ IsFallbackEntry(tasks[i].result.value)
        /\ ImageMiss(tasks[j])
        /\ tasks[j].fetch.state = "resolved"
        /\ tasks[j].put = "done"
        /\ tasks[j].landed

----------------------------------------------------------------------------
\* A DEFAULT request whose fetch resolved and whose handler returned.
DefaultFetched(t) ==
    t.handler = "DEFAULT" /\ t.fetch.state = "resolved" /\ Settled(t)

\* A DEFAULT request whose fetch threw and whose handler returned.
DefaultFailed(t) ==
    t.handler = "DEFAULT" /\ t.fetch.state = "threw" /\ Settled(t)

\* C23, as claimed: for a DEFAULT request a 2xx network response is
\* returned and, once put, is the current-version namespace's entry; on
\* network failure the namespace's entry for the key is returned if there
\* is one, and otherwise the 408 text response is returned and the handler
\* puts nothing.
C23_AsClaimed ==
    \A i \in TaskIds :
        /\ DefaultFetched(tasks[i]) /\ In2xx(tasks[i].fetch.resp.status) =>
             /\ tasks[i].result = Fulfilled(tasks[i].fetch.resp)
             /\ tasks[i].put = "done" => tasks[i].landed
        /\ DefaultFailed(tasks[i]) =>
             /\ tasks[i].put = "none"
             /\ tasks[i].nsAtReturn # Undefined =>
                  tasks[i].result = Fulfilled(tasks[i].nsAtReturn)
             /\ tasks[i].nsAtReturn = Undefined =>
                  tasks[i].result = Fulfilled(NoCacheResponse)

\* C23, amended: a network response is returned whatever its status; a 2xx
\* one is put (not awaited) through the Cache object the handler opens
\* after the fetch, so it shows in the current-version namespace unless the
\* namespace was deleted between that open and the put. On network failure
\* the entry of the Cache object opened in the catch block is returned,
\* which is the namespace's unless it was deleted after that open; when
\* that object has no entry the plain-text 408 is returned. A failed
\* request puts nothing.
C23_DefaultNetworkFirst ==
    \A i \in TaskIds :
        /\ DefaultFetched(tasks[i]) =>
             /\ tasks[i].result = Fulfilled(tasks[i].fetch.resp)
             /\ In2xx(tasks[i].fetch.resp.status) <=> tasks[i].put # "none"
             /\ tasks[i].put = "done" =>
                  /\ <<Key(tasks[i]), tasks[i].fetch.resp>> \in written
                  /\ ~tasks[i].putDetached => tasks[i].landed
        /\ DefaultFailed(tasks[i]) =>
             /\ tasks[i].put = "none"
             /\ tasks[i].cachedResponse # Undefined =>
                  tasks[i].result = Fulfilled(tasks[i].cachedResponse)
             /\ tasks[i].cachedResponse = Undefined =>
                  /\ tasks[i].result.state = "fulfilled"
                  /\ tasks[i].result.value.type = "synthesized"
                  /\ tasks[i].result.value.status = 408
                  /\ tasks[i].result.value.contentType = "text/plain"
             /\ ~tasks[i].detached => tasks[i].cachedResponse = tasks[i].nsAtReturn

\* C23's cases: one DEFAULT request failed with nothing cached and got the
\* 408 while the namespace stayed without the key; another fetched a 2xx
\* response that was returned and landed in the namespace.
C23_Witness ==
    \E i, j \in TaskIds :
        /\ DefaultFailed(tasks[i])
        /\ tasks[i].result = Fulfilled(NoCacheResponse)
        /\ tasks[i].nsAtReturn = Undefined
        /\ DefaultFetched(tasks[j])
        /\ tasks[j].put = "done"
        /\ tasks[j].landed
        /\ tasks[j].result = Fulfilled(tasks[j].fetch.resp)

----------------------------------------------------------------------------
\* The pages and the activation broadcast (src/sw.js:93-120, 516-522).

MaxWindows == 2

\* The URLs of the application's pages, as Client.url gives them.
PageUrls == {ROOT, Path(<<"jobs">>)}

\* A window client that has just loaded url.
Window(url) ==
    [url |-> url, open |-> TRUE, inbox |-> << >>, focused |-> 0,
     controlled |-> FALSE]

\* The sendMessageToClients calls made so far, in order.
Broadcasts == SelectSeq(outbox, LAMBDA m : m.to = "clients")

\* The user opens a page of the application.
PageOpens(url) ==
    /\ Len(windows) < MaxWindows
    /\ windows' = Append(windows, Window(url))
    /\ UNCHANGED <<lifecycle, names, objs, tasks, written, outbox, clears,
                   instances, activation, legacy, msgs, queue, syncs, posts,
                   matched, pushes>>

\* The user closes a page.
PageCloses(w) ==
    /\ windows[w].open
    /\ windows' = [windows EXCEPT ![w].open = FALSE]
    /\ UNCHANGED <<lifecycle, names, objs, tasks, written, outbox, clears,
                   instances, activation, legacy, msgs, queue, syncs, posts,
                   matched, pushes>>

\* self.clients.matchAll() of a sendMessageToClients call resolves with the
\* window clients there are at that moment, and the message is posted to
\* each of them.
ClientsMatched ==
    /\ matched < Len(Broadcasts)
    /\ windows' = [w \in DOMAIN windows |->
                     IF windows[w].open
                     THEN [windows[w] EXCEPT
                             !.inbox = Append(@, Broadcasts[matched + 1])]
                     ELSE windows[w]]
    /\ matched' = matched + 1
    /\ UNCHANGED <<lifecycle, names, objs, tasks, written, outbox, clears,
                   instances, activation, legacy, msgs, queue, syncs, posts, pushes>>

\* One caches.delete(cacheName) of the cleanup rejects: Promise.all rejects
\* with it, the then-callback of line 114 is skipped and the promise given
\* to waitUntil rejects. The worker becomes active all the same; the other
\* deletions stay in flight.
ActivateDeleteFails(n) ==
    /\ activation.pc = "deleting"
    /\ n \in activation.todo
    /\ activation' = [activation EXCEPT !.pc = "rejected", !.todo = @ \ {n}]
    /\ lifecycle' = "active"
    /\ UNCHANGED <<names, objs, tasks, written, outbox, clears,
                   instances, legacy, msgs, queue, syncs, posts,
                   windows, matched, pushes>>

\* A deletion that was in flight when the cleanup rejected completes.
ActivateLateDelete(n) ==
    /\ activation.pc = "rejected"
    /\ n \in activation.todo
    /\ names' = DeleteName(names, n)
    /\ activation' = [activation EXCEPT !.todo = @ \ {n},
                                        !.deleted = @ \cup {n}]
    /\ UNCHANGED <<lifecycle, objs, tasks, written, outbox, clears,
                   instances, legacy, msgs, queue, syncs, posts,
                   windows, matched, pushes>>

\* Any set of older namespaces may exist when this script's first instance
\* starts; no other script is registered.
ActivationInit ==
    /\ lifecycle = "parsed"
    /\ \E S \in SUBSET OldNames :
        LET present == SelectSeq(<<LEGACY_CACHE_NAME, "pwa-cache-v1-9-0">>,
                                 LAMBDA n : n \in S)
        IN /\ names = [i \in DOMAIN present |-> [name |-> present[i], id |-> i]]
           /\ objs = [i \in DOMAIN present |-> OldContent(present[i])]
    /\ tasks = << >>
    /\ written = {}
    /\ outbox = << >>
    /\ clears = 0
    /\ OthersIdle

ActivationNext ==
    \/ Install
    \/ ActivateKeys
    \/ \E n \in activation.todo : ActivateDelete(n)
    \/ \E n \in activation.todo : ActivateDeleteFails(n)
    \/ \E n \in activation.todo : ActivateLateDelete(n)
    \/ ActivateDone
    \/ NewInstance
    \/ \E u \in PageUrls : PageOpens(u)
    \/ \E w \in DOMAIN windows : PageCloses(w)
    \/ ClientsMatched

ActivationSpec == ActivationInit /\ [][ActivationNext]_vars

\* The message the activate handler gives to sendMessageToClients.
ActivatedMessage ==
    [to |-> "clients", type |-> "SW_ACTIVATED", version |-> APP_VERSION]

\* C24, as claimed: the message is in a page's inbox only when no stale
\* namespace is left, and once a worker instance is active every one of
\* the activations so far has had its message sent.
C24_AsClaimed ==
    /\ (\E w \in DOMAIN windows : windows[w].inbox # << >>) =>
          \A n \in Doomed(activation.keys) : ~HasName(names, n)
    /\ lifecycle = "active" => Len(Broadcasts) = instances + 1

\* C24, amended, the state part: a page only ever receives the activated
\* message with the version string, and no more of them than
\* sendMessageToClients calls were made, which are no more than
\* activations.
C24_OnlyActivatedMessages ==
    /\ matched <= Len(Broadcasts)
    /\ Len(Broadcasts) <= instances + 1
    /\ \A k \in DOMAIN Broadcasts : Broadcasts[k] = ActivatedMessage
    /\ \A w \in DOMAIN windows :
          /\ Len(windows[w].inbox) <= matched
          /\ \A k \in DOMAIN windows[w].inbox :
                windows[w].inbox[k] = ActivatedMessage

\* C24, amended, the step part: sendMessageToClients is called in the step
\* in which the cleanup resolves, which is after every deletion the handler
\* issued has completed, and in no other step; a cleanup in which a
\* deletion rejected sends nothing. When the matchAll() of a call resolves,
\* every page open at that moment gets the message once, and a page gets a
\* message in no other step.
C24_SentOnceAfterDeletions ==
    /\ activation'.pc = "done" /\ activation.pc # "done" =>
          /\ activation.todo = {}
          /\ \A n \in Doomed(activation.keys) : ~HasName(names, n)
          /\ outbox' = Append(outbox, ActivatedMessage)
    /\ outbox' # outbox => activation'.pc = "done" /\ activation.pc = "deleting"
    /\ matched' # matched =>
          /\ matched' = matched + 1
          /\ \A w \in DOMAIN windows :
                windows'[w].inbox =
                    IF windows[w].open
                    THEN Append(windows[w].inbox, ActivatedMessage)
                    ELSE windows[w].inbox
    /\ matched' = matched =>
          \A w \in DOMAIN windows : windows'[w].inbox = windows[w].inbox

\* C24, amended.
C24_ActivatedBroadcast ==
    []C24_OnlyActivatedMessages /\ [][C24_SentOnceAfterDeletions]_vars

\* C24's case: the cleanup deleted a stale namespace, then two open pages
\* each got the activated message once.
C24_Witness ==
    /\ activation.pc = "done"
    /\ activation.deleted # {}
    /\ instances = 0
    /\ Len(windows) = 2
    /\ \A w \in DOMAIN windows :
          windows[w].open /\ windows[w].inbox = <<ActivatedMessage>>

----------------------------------------------------------------------------
\* The push listener (src/sw.js:390-413) and control messages that are not
\* what the pages of the application send.

MaxPushes == 2

\* A push payload: whether event.data is there, whether its text is JSON,
\* whether that JSON is the value null, and for a JSON object its title and
\* body ("" when the field is missing or empty) and its data.url (Undefined
\* when missing).
PushPayload(present, json, null, title, body, url) ==
    [present |-> present, json |-> json, null |-> null,
     title |-> title, body |-> body, url |-> url]

PushPayloads ==
    { PushPayload(FALSE, FALSE, FALSE, "", "", Undefined),
      PushPayload(TRUE, FALSE, FALSE, "", "", Undefined),
      PushPayload(TRUE, TRUE, TRUE, "", "", Undefined),
      PushPayload(TRUE, TRUE, FALSE, "", "", Undefined),
      PushPayload(TRUE, TRUE, FALSE, "New job", "A job was posted", Undefined) }

\* showNotification(data.title || 'My PWA', {body: data.body || 'New
\* notification', data: data.data || {}, tag: data.tag || 'default', ...}).
Notification(data) ==
    [title |-> IF data.title # "" THEN data.title ELSE "My PWA",
     body |-> IF data.body # "" THEN data.body ELSE "New notification",
     tag |-> "default",
     url |-> data.url]

\* The push listener runs for payload p. Without event.data it returns;
\* event.data.json() throws a SyntaxError on text that is not JSON; on the
\* JSON value null the read of data.body throws a TypeError; both leave the
\* listener uncaught. Otherwise the notification is shown.
Push(p) ==
    /\ lifecycle = "active"
    /\ Len(pushes) < MaxPushes
    /\ pushes' = Append(pushes,
          [payload |-> p,
           outcome |-> IF ~p.present THEN "ignored"
                       ELSE IF ~p.json \/ p.null THEN "threw"
                       ELSE "shown",
           error |-> IF p.present /\ ~p.json THEN "SyntaxError"
                     ELSE IF p.present /\ p.null THEN "TypeError"
                     ELSE "",
           notification |-> IF p.present /\ p.json /\ ~p.null
                            THEN Notification(p) ELSE Undefined,
           \* The click on the notification, once there is one: whether an
           \* open page was at the target when the pages were looked up,
           \* the page focused and the page opened (0: none).
           click |-> [state |-> "none", pageAtTarget |-> FALSE,
                      focused |-> 0, opened |-> 0]])
    /\ UNCHANGED <<lifecycle, names, objs, tasks, written, outbox, clears,
                   instances, activation, legacy, msgs, queue, syncs, posts,
                   windows, matched>>

\* Control messages without data, of a type the listener does not know,
\* without a port, or (UPDATE_ASSETS) without urls.
MalformedMessages ==
    { MessageEvent(FALSE, "", NoUrls, TRUE),
      MessageEvent(FALSE, "", NoUrls, FALSE),
      MessageEvent(TRUE, "PING", NoUrls, TRUE),
      MessageEvent(TRUE, "SKIP_WAITING", NoUrls, FALSE),
      MessageEvent(TRUE, "GET_CACHE_INFO", NoUrls, FALSE),
      MessageEvent(TRUE, "CLEAR_CACHE", NoUrls, FALSE),
      MessageEvent(TRUE, "UPDATE_ASSETS", Urls(<<STYLES_CSS>>), FALSE),
      MessageEvent(TRUE, "UPDATE_ASSETS", NoUrls, TRUE) }

MalformedNext ==
    \/ \E m \in MalformedMessages : Message(m)
    \/ \E p \in PushPayloads : Push(p)
    \/ \E i \in DOMAIN msgs : ClearKeys(i)
    \/ \E i \in DOMAIN msgs : \E n \in msgs[i].todo : ClearDelete(i, n)
    \/ \E i \in DOMAIN msgs : ClearSettled(i)
    \/ \E i \in DOMAIN msgs : UpdateOpen(i)
    \/ \E i \in {j \in DOMAIN msgs : msgs[j].pc = "update_fetch"} :
          \E r \in NetResponses(UrlAt(msgs[i])) : UpdateFetchResolves(i, r)
    \/ \E i \in DOMAIN msgs : UpdateFetchThrows(i)
    \/ \E i \in DOMAIN msgs : UpdatePut(i)

\* The worker is installed and active, its two namespaces filled.
MalformedSpec == ListenerInit /\ [][MalformedNext]_vars

\* C25, as claimed: no malformed control message and no malformed push
\* payload ends in an exception that leaves the listener or in a rejection
\* that nothing handles, and the cache store stays as it was.
C25_AsClaimed ==
    /\ \A i \in DOMAIN msgs : msgs[i].pc \notin {"threw", "rejected"}
    /\ \A i \in DOMAIN pushes : pushes[i].outcome # "threw"
    /\ names = << [name |-> CACHE_NAME, id |-> 1], [name |-> OFFLINE_CACHE, id |-> 2] >>
    /\ objs = << AddAll(<< >>, PRECACHE_ASSETS, 1),
                 Store(<< >>, OFFLINE_HTML, NetResponse(200, OFFLINE_HTML, 1)) >>

----------------------------------------------------------------------------
\* Cache-store failures in the API, asset, HTML and default strategies
\* (src/sw.js:171-211, 249-331): a caches.open, cache.match, caches.match or
\* cache.put rejects, as on an exhausted quota or a corrupted store.

\* Where the handler goes when the cache operation it is at rejects.
\* Outside a try block (lines 172, 250, 251) and inside a catch block (193,
\* 292, 293, 300) the rejection is the handler's. Inside a try block it
\* sends the handler to its catch block: from the awaited put of line 185
\* to the cache lookup of 193, from the open of 285 to the open of 292 and
\* from the open of 311 to the open of 318. A put that was not awaited
\* (257, 286, 312) rejects with no one to handle it.
AfterCacheFailure(t) ==
    LET f == [t EXCEPT !.cacheFailed = TRUE, !.cacheOps = @ + 1]
    IN CASE t.pc = "api_put" -> [f EXCEPT !.pc = "api_catch", !.put = "failed"]
         [] t.pc = "html_open" -> [f EXCEPT !.pc = "html_catch_open"]
         [] t.pc = "default_open" -> [f EXCEPT !.pc = "default_catch_open"]
         [] t.pc = "put_pending" -> Done([f EXCEPT !.put = "failed"])
         [] OTHER -> Done([f EXCEPT !.result = Rejected("CacheError")])

\* The cache operation task i is waiting for rejects.
CacheOpFails(i) ==
    /\ tasks[i].pc \in {"api_open", "api_put", "api_catch",
                        "asset_open", "asset_match",
                        "html_open", "html_catch_open", "html_catch_match",
                        "html_offline", "put_pending",
                        "default_open", "default_catch_open",
                        "default_catch_match"}
    /\ Commit(Set(i, AfterCacheFailure(tasks[i])), names, objs)
    /\ UNCHANGED <<lifecycle, written, others, outbox, clears>>

FaultRequests ==
    { Request("GET", API_WIDGETS, JSON_ACCEPT),
      Request("GET", STYLES_CSS, NoHeader),
      Request("GET", Path(<<"jobs">>), HTML_ACCEPT) }

FaultNext ==
    \/ \E req \in FaultRequests : FetchEvent(req)
    \/ \E i \in DOMAIN tasks : CacheOpFails(i)
    \/ \E i \in DOMAIN tasks : ApiOpen(i)
    \/ \E i \in DOMAIN tasks : \E r \in NetResponses(Key(tasks[i])) : ApiFetchResolves(i, r)
    \/ \E i \in DOMAIN tasks : ApiFetchThrows(i)
    \/ \E i \in DOMAIN tasks : ApiTimeout(i)
    \/ \E i \in DOMAIN tasks : ApiPut(i)
    \/ \E i \in DOMAIN tasks : ApiCatchMatch(i)
    \/ \E i \in DOMAIN tasks : ApiLateFetch(i)
    \/ \E i \in DOMAIN tasks : AssetOpen(i)
    \/ \E i \in DOMAIN tasks : AssetMatch(i)
    \/ \E i \in DOMAIN tasks : \E r \in NetResponses(Key(tasks[i])) : AssetFetchResolves(i, r)
    \/ \E i \in DOMAIN tasks : AssetFetchThrows(i)
    \/ \E i \in DOMAIN tasks : \E r \in NetResponses(Key(tasks[i])) : HtmlFetchResolves(i, r)
    \/ \E i \in DOMAIN tasks : HtmlOpenPut(i)
    \/ \E i \in DOMAIN tasks : HtmlFetchThrows(i)
    \/ \E i \in DOMAIN tasks : HtmlCatchOpen(i)
    \/ \E i \in DOMAIN tasks : HtmlCatchMatch(i)
    \/ \E i \in DOMAIN tasks : HtmlOffline(i)
    \/ \E i \in DOMAIN tasks : BackgroundPut(i)

\* The worker is installed and active, its two namespaces filled.
FaultSpec == ListenerInit /\ [][FaultNext]_vars

\* C26, as claimed: a request that met a failing cache operation still
\* gets an answer, and when its network fetch succeeded that answer is the
\* network response.
C26_AsClaimed ==
    \A i \in TaskIds :
        tasks[i].cacheFailed /\ tasks[i].pc = "done" =>
            /\ tasks[i].result.state = "fulfilled"
            /\ tasks[i].fetch.state = "resolved" =>
                 tasks[i].result = Fulfilled(tasks[i].fetch.resp)

----------------------------------------------------------------------------
\* The network requests that sync run i issued.
RequestsOfRun(i) == {k \in DOMAIN posts : posts[k].run = i}

\* C27, the state part: the run of an unrecognized tag is over as soon as
\* the listener returns, with no error and no network request; the run of
\* 'sync-posts' is never at a step of syncSettings and issues no PUT; the
\* run of 'sync-settings' is never at a step of syncPendingPosts and issues
\* nothing but its PUT to /api/settings.
C27_OwnRoutineOnly ==
    \A i \in DOMAIN syncs :
        CASE syncs[i].tag = "sync-posts" ->
                /\ syncs[i].pc \in {"posts_open", "rejected", "done"}
                /\ \A k \in RequestsOfRun(i) : posts[k].method = "POST"
          [] syncs[i].tag = "sync-settings" ->
                /\ syncs[i].pc \in {"settings_read", "settings_put", "rejected", "done"}
                /\ \A k \in RequestsOfRun(i) :
                      /\ posts[k].method = "PUT"
                      /\ posts[k].url = Path(<<"api", "settings">>)
                /\ Cardinality(RequestsOfRun(i)) <= 1
          [] OTHER ->
                /\ syncs[i].pc = "done"
                /\ syncs[i].error = "none"
                /\ RequestsOfRun(i) = {}

\* C27, the step part: the step in which the listener runs for an
\* unrecognized tag changes neither the pending queue, nor the cache store,
\* nor the requests made.
C27_UnknownTagChangesNothing ==
    /\ Len(syncs') = Len(syncs) + 1
    /\ syncs'[Len(syncs')].tag \notin {"sync-posts", "sync-settings"}
    => /\ queue' = queue
       /\ names' = names
       /\ objs' = objs
       /\ posts' = posts

\* C27: a sync event with an unrecognized tag is ignored, and a recognized
\* tag runs its own routine only.
C27_SyncDispatch ==
    []C27_OwnRoutineOnly /\ [][C27_UnknownTagChangesNothing]_vars

\* C27's cases: a sync event with an unrecognized tag was ignored, and a
\* 'sync-settings' event ran syncSettings to its PUT.
C27_Witness ==
    \E i, j \in DOMAIN syncs :
        /\ syncs[i].tag = "sync-other"
        /\ syncs[i].pc = "done"
        /\ syncs[j].tag = "sync-settings"
        /\ syncs[j].pc = "done"
        /\ RequestsOfRun(j) # {}
        /\ queue # << >>

----------------------------------------------------------------------------
\* The notificationclick listener (src/sw.js:415-438).

\* Payloads whose data.url is missing, the absolute URL of a page, or the
\* same page as a path-only reference ('/jobs').
ClickPayloads ==
    { PushPayload(TRUE, TRUE, FALSE, "New job", "", Undefined),
      PushPayload(TRUE, TRUE, FALSE, "New job", "", Path(<<"jobs">>)),
      PushPayload(TRUE, TRUE, FALSE, "New job", "", Url("", <<"jobs">>)) }

\* const urlToOpen = event.notification.data?.url || '/'
UrlToOpen(n) == IF n.url # Undefined THEN n.url ELSE Url("", << >>)

\* The absolute URL a reference stands for, as clients.openWindow resolves
\* it against the worker's location and as the opened page reports it.
Resolve(u) == IF u.scheme = "" THEN Path(u.segs) ELSE u

\* The open pages whose Client.url is the string urlToOpen (line 427).
ClientsAt(u) == {w \in DOMAIN windows : windows[w].open /\ windows[w].url = u}

\* The user clicks the notification of push k: it is closed and
\* clients.matchAll is called.
NotificationClick(k) ==
    /\ pushes[k].outcome = "shown"
    /\ pushes[k].click.state = "none"
    /\ pushes' = [pushes EXCEPT ![k].click.state = "matching"]
    /\ UNCHANGED <<lifecycle, names, objs, tasks, written, outbox, clears,
                   instances, activation, legacy, msgs, queue, syncs, posts,
                   windows, matched>>

\* clients.matchAll resolves: the first client of the list whose url is
\* urlToOpen is focused (the list's order is the browser's), and when there
\* is none clients.openWindow(urlToOpen) opens a page.
ClickMatched(k) ==
    /\ pushes[k].click.state = "matching"
    /\ LET u == UrlToOpen(pushes[k].notification)
           at == \E w \in DOMAIN windows :
                    windows[w].open /\ windows[w].url = Resolve(u)
       IN IF ClientsAt(u) # {}
          THEN \E w \in ClientsAt(u) :
                 /\ windows' = [windows EXCEPT ![w].focused = @ + 1]
                 /\ pushes' = [pushes EXCEPT ![k].click =
                                 [state |-> "done", pageAtTarget |-> at,
                                  focused |-> w, opened |-> 0]]
          ELSE /\ windows' = Append(windows, Window(Resolve(u)))
               /\ pushes' = [pushes EXCEPT ![k].click =
                               [state |-> "done", pageAtTarget |-> at,
                                focused |-> 0, opened |-> Len(windows) + 1]]
    /\ UNCHANGED <<lifecycle, names, objs, tasks, written, outbox, clears,
                   instances, activation, legacy, msgs, queue, syncs, posts,
                   matched>>

ClickNext ==
    \/ \E p \in ClickPayloads : Push(p)
    \/ \E u \in PageUrls : PageOpens(u)
    \/ \E w \in DOMAIN windows : PageCloses(w)
    \/ \E k \in DOMAIN pushes : NotificationClick(k)
    \/ \E k \in DOMAIN pushes : ClickMatched(k)

\* The worker is installed and active, its two namespaces filled.
ClickSpec == ListenerInit /\ [][ClickNext]_vars

\* The clicks that have been handled.
ClicksDone == {k \in DOMAIN pushes : pushes[k].click.state = "done"}

\* C28, as claimed: when a page was open at the notification's target URL,
\* that page was focused and none was opened; otherwise one page was opened
\* at the target; never both.
C28_AsClaimed ==
    \A k \in ClicksDone :
        LET c == pushes[k].click
            u == Resolve(UrlToOpen(pushes[k].notification))
        IN IF c.pageAtTarget
           THEN /\ c.opened = 0
                /\ c.focused # 0
                /\ windows[c.focused].url = u
           ELSE /\ c.focused = 0
                /\ c.opened # 0
                /\ windows[c.opened].url = u

----------------------------------------------------------------------------
\* The one rejection the strategies make on purpose: an asset request with
\* no cached copy whose fetch threw (src/sw.js:261-266).
AssetNetworkFailure(t) ==
    /\ t.handler = "ASSET"
    /\ t.hit = "miss"
    /\ t.fetch.state = "threw"
    /\ t.result = Rejected("Network failed and no cache available")

\* C29, as claimed: whatever the interleaving of the requests for one key,
\* every Cache object holds under a key one whole 2xx response for that
\* key, and a request is not made to fail by another request's write to its
\* key: a handler rejects only where the strategy itself gives up.
C29_AsClaimed ==
    /\ \A id \in DOMAIN objs : \A k \in DOMAIN objs[id] :
          /\ objs[id][k].type = "network"
          /\ objs[id][k].url = k
          /\ In2xx(objs[id][k].status)
    /\ \A i, j \in TaskIds :
          /\ i # j
          /\ Key(tasks[i]) = Key(tasks[j])
          /\ tasks[j].put = "done"
          /\ tasks[i].result.state = "rejected"
          => AssetNetworkFailure(tasks[i])

----------------------------------------------------------------------------
\* An ASSET request whose cache.match gave nothing / gave an entry.
AssetMiss(t) == t.handler = "ASSET" /\ t.hit = "miss"
AssetHit(t) == t.handler = "ASSET" /\ t.hit = "hit"

\* C30, as claimed: an ASSET request with no cached entry waits for the
\* fetch; a 2xx response is returned and, once put, is the current-version
\* namespace's entry; a fetch that throws rejects the handler with 'Network
\* failed and no cache available'. With a cached entry the handler returns
\* it whatever becomes of the fetch.
C30_AsClaimed ==
    \A i \in TaskIds :
        /\ AssetMiss(tasks[i]) =>
             /\ tasks[i].fetch.state = "pending" => tasks[i].result = Pending
             /\ tasks[i].fetch.state = "resolved" /\ In2xx(tasks[i].fetch.resp.status) =>
                  /\ tasks[i].result = Fulfilled(tasks[i].fetch.resp)
                  /\ tasks[i].put = "done" => tasks[i].landed
             /\ tasks[i].fetch.state = "threw" => AssetNetworkFailure(tasks[i])
        /\ AssetHit(tasks[i]) =>
             tasks[i].result = Fulfilled(tasks[i].cachedResponse)

\* C30, amended: as claimed, except that the 2xx response is put (not
\* awaited) through the Cache object the handler opened, so that it shows
\* in the current-version namespace unless the namespace was deleted after
\* the open; a response of another status is returned and not put, and a
\* request whose fetch threw puts nothing.
C30_AssetMissAwaitsNetwork ==
    \A i \in TaskIds :
        /\ AssetMiss(tasks[i]) =>
             /\ tasks[i].fetch.state = "pending" => tasks[i].result = Pending
             /\ tasks[i].fetch.state = "resolved" =>
                  /\ tasks[i].result = Fulfilled(tasks[i].fetch.resp)
                  /\ In2xx(tasks[i].fetch.resp.status) <=> tasks[i].put # "none"
                  /\ tasks[i].put = "done" =>
                       /\ <<Key(tasks[i]), tasks[i].fetch.resp>> \in written
                       /\ ~tasks[i].putDetached => tasks[i].landed
             /\ tasks[i].fetch.state = "threw" =>
                  /\ AssetNetworkFailure(tasks[i])
                  /\ tasks[i].put = "none"
        /\ AssetHit(tasks[i]) =>
             tasks[i].result = Fulfilled(tasks[i].cachedResponse)

\* C30's cases: one asset request had no cached copy, its fetch threw and
\* the handler rejected; another had a cached copy, its background fetch
\* threw and the caller got the cached copy all the same.
C30_Witness ==
    \E i, j \in TaskIds :
        /\ AssetMiss(tasks[i])
        /\ AssetNetworkFailure(tasks[i])
        /\ AssetHit(tasks[j])
        /\ tasks[j].fetch.state = "threw"
        /\ tasks[j].result = Fulfilled(tasks[j].cachedResponse)

----------------------------------------------------------------------------
\* The offline page next to UPDATE_ASSETS (src/sw.js:279-302, 532-551): the
\* pages ask for a refresh of /offline.html while HTML requests are served.
\* Nothing here writes or deletes the offline namespace, so its entry is
\* the one install stored throughout.

OfflineMessages ==
    { MessageEvent(TRUE, "UPDATE_ASSETS", Urls(<<OFFLINE_HTML>>), TRUE) }

OfflineRequests == { Request("GET", Path(<<"jobs">>), HTML_ACCEPT) }

OfflineNext ==
    \/ \E m \in OfflineMessages : Message(m)
    \/ \E i \in DOMAIN msgs : UpdateOpen(i)
    \/ \E i \in {j \in DOMAIN msgs : msgs[j].pc = "update_fetch"} :
          \E r \in NetResponses(UrlAt(msgs[i])) : UpdateFetchResolves(i, r)
    \/ \E i \in DOMAIN msgs : UpdateFetchThrows(i)
    \/ \E i \in DOMAIN msgs : UpdatePut(i)
    \/ \E i \in DOMAIN msgs : UpdatePutFails(i)
    \/ \E req \in OfflineRequests : FetchEvent(req)
    \/ \E i \in DOMAIN tasks : \E r \in NetResponses(Key(tasks[i])) : HtmlFetchResolves(i, r)
    \/ \E i \in DOMAIN tasks : HtmlOpenPut(i)
    \/ \E i \in DOMAIN tasks : HtmlFetchThrows(i)
    \/ \E i \in DOMAIN tasks : HtmlCatchOpen(i)
    \/ \E i \in DOMAIN tasks : HtmlCatchMatch(i)
    \/ \E i \in DOMAIN tasks : HtmlOffline(i)
    \/ \E i \in DOMAIN tasks : BackgroundPut(i)

\* The worker is installed and active, its two namespaces filled.
OfflineSpec == ListenerInit /\ [][OfflineNext]_vars

\* An HTML request whose fetch failed and whose key has no entry.
HtmlFailedUncached(t) ==
    /\ t.handler = "HTML"
    /\ t.pc = "done"
    /\ t.fetch.state = "threw"
    /\ t.hit = "miss"

\* C31, as claimed: the answer to a failed, uncached HTML request is the
\* offline namespace's /offline.html entry, whatever the current-version
\* namespace holds under /offline.html.
C31_AsClaimed ==
    \A i \in TaskIds :
        HtmlFailedUncached(tasks[i]) =>
            tasks[i].result = Fulfilled(OfflineEntry(names, objs))

----------------------------------------------------------------------------
\* Taking control of the pages (src/sw.js:96-113). The activate handler
\* calls self.clients.claim() when it builds the array for Promise.all,
\* next to caches.keys(): the claim is under way from the start of the
\* handler and resolves on its own, whatever the cleanup has done so far.

\* self.clients.claim() resolves: every open page of the scope is now
\* controlled by this instance.
ClientsClaim ==
    /\ lifecycle = "installed"
    /\ activation.pc \in {"idle", "deleting"}
    /\ ~activation.claimed
    /\ activation' = [activation EXCEPT !.claimed = TRUE]
    /\ windows' = [w \in DOMAIN windows |->
                     IF windows[w].open
                     THEN [windows[w] EXCEPT !.controlled = TRUE]
                     ELSE windows[w]]
    /\ UNCHANGED <<lifecycle, names, objs, tasks, written, outbox, clears,
                   instances, legacy, msgs, queue, syncs, posts,
                   matched, pushes>>

\* The outer Promise.all resolves when the cleanup and the claim both have.
ClaimedActivateDone == activation.claimed /\ ActivateDone

ClaimNext ==
    \/ Install
    \/ ActivateKeys
    \/ \E n \in activation.todo : ActivateDelete(n)
    \/ ClientsClaim
    \/ ClaimedActivateDone
    \/ \E u \in PageUrls : PageOpens(u)
    \/ \E w \in DOMAIN windows : PageCloses(w)
    \/ ClientsMatched

\* Older namespaces may exist and pages may be open when the instance starts.
ClaimSpec == ActivationInit /\ [][ClaimNext]_vars

\* C32, as claimed: no page becomes controlled by the instance while a
\* namespace other than the current-version and the offline namespace
\* exists.
C32_AsClaimed ==
    [][\A w \in DOMAIN windows :
          ~windows[w].controlled /\ windows'[w].controlled =>
              Doomed(NameSet(names')) = {}]_vars

----------------------------------------------------------------------------
\* Everything that writes the current-version namespace while the worker
\* serves (src/sw.js:171-331, 532-551): the five strategies and
\* updateAssets, side by side. No namespace is deleted here.

MaxRuns == 2        \* fetch events, control messages and periodic syncs together

\* One request of every policy class, none of them cached except the
\* stylesheet.
StoreRequests ==
    { Request("GET", API_WIDGETS, JSON_ACCEPT),
      Request("GET", Path(<<"assets", "images", "photo.jpg">>), NoHeader),
      Request("GET", STYLES_CSS, NoHeader),
      Request("GET", Path(<<"jobs">>), HTML_ACCEPT),
      Request("GET", Path(<<"data.json">>), JSON_ACCEPT) }

StoreMessages ==
    { MessageEvent(TRUE, "UPDATE_ASSETS", Urls(l), TRUE) :
        l \in {<<STYLES_CSS>>, <<API_WIDGETS, Path(<<"jobs">>)>>} }

StoreFetchEvent(req) ==
    /\ Len(tasks) + Len(msgs) + Len(syncs) < MaxRuns
    /\ FetchEvent(req)

StoreMessage(m) ==
    /\ Len(tasks) + Len(msgs) + Len(syncs) < MaxRuns
    /\ Message(m)

StoreNext ==
    \/ \E req \in StoreRequests : StoreFetchEvent(req)
    \/ \E m \in StoreMessages : StoreMessage(m)
    \/ \E i \in DOMAIN msgs : UpdateOpen(i)
    \/ \E i \in {j \in DOMAIN msgs : msgs[j].pc = "update_fetch"} :
          \E r \in NetResponses(UrlAt(msgs[i])) : UpdateFetchResolves(i, r)
    \/ \E i \in DOMAIN msgs : UpdateFetchThrows(i)
    \/ \E i \in DOMAIN msgs : UpdatePut(i)
    \/ \E i \in DOMAIN msgs : UpdatePutFails(i)
    \/ \E i \in DOMAIN tasks : ApiOpen(i)
    \/ \E i \in DOMAIN tasks : \E r \in NetResponses(Key(tasks[i])) : ApiFetchResolves(i, r)
    \/ \E i \in DOMAIN tasks : ApiFetchThrows(i)
    \/ \E i \in DOMAIN tasks : ApiTimeout(i)
    \/ \E i \in DOMAIN tasks : ApiPut(i)
    \/ \E i \in DOMAIN tasks : ApiCatchMatch(i)
    \/ \E i \in DOMAIN tasks : ApiLateFetch(i)
    \/ \E i \in DOMAIN tasks : ImageOpen(i)
    \/ \E i \in DOMAIN tasks : ImageMatch(i)
    \/ \E i \in DOMAIN tasks : \E r \in NetResponses(Key(tasks[i])) : ImageFetchResolves(i, r)
    \/ \E i \in DOMAIN tasks : ImageFetchThrows(i)
    \/ \E i \in DOMAIN tasks : ImageFallback(i)
    \/ \E i \in DOMAIN tasks : AssetOpen(i)
    \/ \E i \in DOMAIN tasks : AssetMatch(i)
    \/ \E i \in DOMAIN tasks : \E r \in NetResponses(Key(tasks[i])) : AssetFetchResolves(i, r)
    \/ \E i \in DOMAIN tasks : AssetFetchThrows(i)
    \/ \E i \in DOMAIN tasks : \E r \in NetResponses(Key(tasks[i])) : HtmlFetchResolves(i, r)
    \/ \E i \in DOMAIN tasks : HtmlOpenPut(i)
    \/ \E i \in DOMAIN tasks : HtmlFetchThrows(i)
    \/ \E i \in DOMAIN tasks : HtmlCatchOpen(i)
    \/ \E i \in DOMAIN tasks : HtmlCatchMatch(i)
    \/ \E i \in DOMAIN tasks : HtmlOffline(i)
    \/ \E i \in DOMAIN tasks : \E r \in NetResponses(Key(tasks[i])) : DefaultFetchResolves(i, r)
    \/ \E i \in DOMAIN tasks : DefaultOpenPut(i)
    \/ \E i \in DOMAIN tasks : DefaultFetchThrows(i)
    \/ \E i \in DOMAIN tasks : DefaultCatchOpen(i)
    \/ \E i \in DOMAIN tasks : DefaultCatchMatch(i)
    \/ \E i \in DOMAIN tasks : BackgroundPut(i)

\* The worker is installed and active, its two namespaces filled.
StoreSpec == ListenerInit /\ [][StoreNext]_vars

\* resp is what the network answered for key, with a status in 200..299.
FetchedFor(key, resp) ==
    /\ resp.type = "network"
    /\ In2xx(resp.status)
    /\ resp.url = key

\* The URLs updateAssets has put so far, each with the response it put.
UpdateWrites ==
    UNION {{<<msgs[i].log[j].url, msgs[i].log[j].fetch>> :
               j \in {n \in DOMAIN msgs[i].log : msgs[i].log[n].put = "done"}} :
           i \in DOMAIN msgs}

\* C33: whatever a strategy or updateAssets has put under a key is a
\* network response with a status in 200..299 that was fetched for that
\* key, and so is every entry the cache store holds: no synthesized 503 or
\* 408, no fallback image or offline page under another URL, no response
\* of another request.
C33_OnlyFetched2xxStored ==
    /\ \A w \in written \cup UpdateWrites : FetchedFor(w[1], w[2])
    /\ \A id \in DOMAIN objs :
          \A k \in DOMAIN objs[id] : FetchedFor(k, objs[id][k])

\* A strategy and updateAssets have both written, and the namespace holds
\* what each of them put.
C33_Witness ==
    /\ \E w \in written : CurrentEntryOf(w[1]) = w[2]
    /\ \E u \in UpdateWrites : CurrentEntryOf(u[1]) = u[2] /\ u \notin written

----------------------------------------------------------------------------
\* Periodic background sync (src/sw.js:449-476). The runs are kept in syncs
\* next to those of the sync listener.

LATEST_CONTENT == Path(<<"api", "latest-content">>)

\* The tags the browser may fire: the one the listener knows and another.
PeriodicTags == {"update-content", "update-other"}

\* What response.json() gives for a response whose body is JSON: the
\* document the server sent with that answer.
Json(resp) == [ver |-> resp.ver, status |-> resp.status]

\* new Response(JSON.stringify(content)): status 200 and a text body,
\* whatever the status of the response the content came with.
ContentResponse(content) ==
    [type |-> "synthesized", status |-> 200, contentType |-> "text/plain",
     text |-> content]

\* Buggy variant of the listener: every tag starts updateContent.
PeriodicFirstPcAnyTag(tag) == "content_fetch"

\* Where handling starts for each tag; an unknown tag is ignored.
PeriodicFirstPc(tag) ==
    IF tag = "update-content" THEN "content_fetch" ELSE "done"

\* The periodicsync listener runs for tag.
PeriodicSync(tag) ==
    /\ lifecycle = "active"
    /\ Len(syncs) < MaxSyncs
    /\ syncs' = Append(syncs, [tag |-> tag, pc |-> PeriodicFirstPc(tag),
                               error |-> "none",
                               fetched |-> Undefined, \* what fetch gave
                               content |-> Undefined, \* what json() gave
                               cache |-> 0,           \* the Cache object opened
                               put |-> "none",        \* the awaited cache.put
                               landed |-> FALSE,      \* it showed in CACHE_NAME
                               sent |-> 0])           \* its broadcast, in outbox
    /\ UNCHANGED <<lifecycle, names, objs, tasks, written, outbox, clears,
                   instances, activation, legacy, msgs, queue, posts,
                   windows, matched, pushes>>

\* The catch block of updateContent: the error is logged and the async
\* function returns normally.
ContentCaught(s, error) == [s EXCEPT !.pc = "done", !.error = error]

\* await fetch('/api/latest-content') resolves with r, whose status is not
\* looked at.
ContentFetchResolves(i, r) ==
    /\ syncs[i].pc = "content_fetch"
    /\ syncs' = [syncs EXCEPT ![i] = [@ EXCEPT !.pc = "content_json",
                                               !.fetched = r]]
    /\ UNCHANGED <<lifecycle, names, objs, tasks, written, outbox, clears,
                   instances, activation, legacy, msgs, queue, posts,
                   windows, matched, pushes>>

\* await fetch('/api/latest-content') rejects.
ContentFetchThrows(i) ==
    /\ syncs[i].pc = "content_fetch"
    /\ syncs' = [syncs EXCEPT ![i] = ContentCaught(@, "TypeError")]
    /\ UNCHANGED <<lifecycle, names, objs, tasks, written, outbox, clears,
                   instances, activation, legacy, msgs, queue, posts,
                   windows, matched, pushes>>

\* await response.json() resolves: the body was JSON.
ContentJson(i) ==
    /\ syncs[i].pc = "content_json"
    /\ syncs' = [syncs EXCEPT ![i] = [@ EXCEPT !.pc = "content_open",
                                               !.content = Json(syncs[i].fetched)]]
    /\ UNCHANGED <<lifecycle, names, objs, tasks, written, outbox, clears,
                   instances, activation, legacy, msgs, queue, posts,
                   windows, matched, pushes>>

\* await response.json() rejects: the body was not JSON.
ContentJsonFails(i) ==
    /\ syncs[i].pc = "content_json"
    /\ syncs' = [syncs EXCEPT ![i] = ContentCaught(@, "SyntaxError")]
    /\ UNCHANGED <<lifecycle, names, objs, tasks, written, outbox, clears,
                   instances, activation, legacy, msgs, queue, posts,
                   windows, matched, pushes>>

\* await caches.open(CACHE_NAME) completes in updateContent.
ContentOpen(i) ==
    /\ syncs[i].pc = "content_open"
    /\ names' = OpenNames(names, objs, CACHE_NAME)
    /\ objs' = OpenObjs(names, objs, CACHE_NAME)
    /\ syncs' = [syncs EXCEPT ![i] =
                    [@ EXCEPT !.pc = "content_put", !.put = "pending",
                              !.cache = OpenId(names, objs, CACHE_NAME)]]
    /\ UNCHANGED <<lifecycle, tasks, written, outbox, clears,
                   instances, activation, legacy, msgs, queue, posts,
                   windows, matched, pushes>>

\* Buggy variant: the pages are told although the write has not been made.
ContentPutNotAwaited(i) ==
    /\ syncs[i].pc = "content_put"
    /\ syncs' = [syncs EXCEPT ![i] = [@ EXCEPT !.pc = "done",
                                               !.sent = Len(outbox) + 1]]
    /\ outbox' = Append(outbox, [to |-> "clients", type |-> "CONTENT_UPDATED",
                                 data |-> syncs[i].content])
    /\ UNCHANGED <<lifecycle, names, objs, tasks, written, clears,
                   instances, activation, legacy, msgs, queue, posts,
                   windows, matched, pushes>>

\* await cache.put('/api/latest-content', new Response(...)) completes,
\* through the Cache object the routine opened; then sendMessageToClients
\* is called with the content.
ContentPut(i) ==
    /\ syncs[i].pc = "content_put"
    /\ LET s == syncs[i]
           no == [objs EXCEPT ![s.cache] =
                     Store(@, LATEST_CONTENT, ContentResponse(s.content))]
       IN /\ objs' = no
          /\ syncs' = [syncs EXCEPT ![i] =
                          [s EXCEPT !.pc = "done", !.put = "done",
                                    !.landed =
                                        Lookup(Namespace(names, no, CACHE_NAME),
                                               LATEST_CONTENT)
                                            = ContentResponse(s.content),
                                    !.sent = Len(outbox) + 1]]
    /\ outbox' = Append(outbox, [to |-> "clients", type |-> "CONTENT_UPDATED",
                                 data |-> syncs[i].content])
    /\ UNCHANGED <<lifecycle, names, tasks, written, clears,
                   instances, activation, legacy, msgs, queue, posts,
                   windows, matched, pushes>>

\* await caches.open or await cache.put rejects (the store refuses).
ContentCacheFails(i) ==
    /\ syncs[i].pc \in {"content_open", "content_put"}
    /\ syncs' = [syncs EXCEPT ![i] =
                    ContentCaught([@ EXCEPT !.put = IF @ = "pending" THEN "failed"
                                                    ELSE @],
                                  "QuotaExceededError")]
    /\ UNCHANGED <<lifecycle, names, objs, tasks, written, outbox, clears,
                   instances, activation, legacy, msgs, queue, posts,
                   windows, matched, pushes>>

----------------------------------------------------------------------------
\* The handlers of the running instance next to namespaces that are not
\* theirs (src/sw.js:171-331, 449-476, 532-551). The store holds a
\* namespace of an earlier version (its deletion by activate rejected) and
\* the offline namespace; the current-version namespace is there as install
\* filled it, or gone (a CLEAR_CACHE of which only that deletion resolved).

STALE_CACHE == "pwa-cache-v1-9-0"

FrameInit ==
    /\ lifecycle = "active"
    /\ \E current \in BOOLEAN :
        LET present == IF current
                       THEN <<STALE_CACHE, CACHE_NAME, OFFLINE_CACHE>>
                       ELSE <<STALE_CACHE, OFFLINE_CACHE>>
        IN /\ names = [i \in DOMAIN present |-> [name |-> present[i], id |-> i]]
           /\ objs = [i \in DOMAIN present |->
                        IF present[i] = CACHE_NAME
                        THEN AddAll(<< >>, PRECACHE_ASSETS, 1)
                        ELSE OldContent(present[i])]
    /\ tasks = << >>
    /\ written = {}
    /\ outbox = << >>
    /\ clears = 0
    /\ OthersIdle

StorePeriodicSync(tag) ==
    /\ Len(tasks) + Len(msgs) + Len(syncs) < MaxRuns
    /\ PeriodicSync(tag)

FrameNext ==
    \/ StoreNext
    \/ \E tag \in PeriodicTags : StorePeriodicSync(tag)
    \/ \E i \in {j \in DOMAIN syncs : syncs[j].pc = "content_fetch"} :
          \E r \in NetResponses(LATEST_CONTENT) : ContentFetchResolves(i, r)
    \/ \E i \in DOMAIN syncs : ContentFetchThrows(i)
    \/ \E i \in DOMAIN syncs : ContentJson(i)
    \/ \E i \in DOMAIN syncs : ContentJsonFails(i)
    \/ \E i \in DOMAIN syncs : ContentOpen(i)
    \/ \E i \in DOMAIN syncs : ContentPut(i)
    \/ \E i \in DOMAIN syncs : ContentCacheFails(i)

FrameSpec == FrameInit /\ [][FrameNext]_vars

\* The namespaces that are not the current version's are there with the
\* content they had when the handlers started, and no other namespace has
\* come into being.
OthersAsBefore ==
    /\ NameSet(names) \ {CACHE_NAME} = {STALE_CACHE, OFFLINE_CACHE}
    /\ \A n \in {STALE_CACHE, OFFLINE_CACHE} :
          Namespace(names, objs, n) = OldContent(n)

\* No step deletes a namespace.
NoDeletion == [][NameSet(names) \subseteq NameSet(names')]_vars

\* C34: the strategies, updateAssets and updateContent create and write
\* the current-version namespace only. Whatever requests, periodic syncs
\* and UPDATE_ASSETS messages are handled, the offline namespace and the
\* namespace of another version keep their content, no further namespace
\* appears and none is deleted.
C34_HandlersWriteCurrentOnly == []OthersAsBefore /\ NoDeletion

\* A handler has brought the current-version namespace back into being and
\* a strategy and updateContent have written it.
C34_Witness ==
    /\ HasName(names, CACHE_NAME)
    /\ CurrentEntryOf(ROOT) = Undefined
    /\ CurrentEntryOf(LATEST_CONTENT) # Undefined
    /\ \E w \in written : CurrentEntryOf(w[1]) = w[2]

----------------------------------------------------------------------------
\* The fallback entries over the worker's life (src/sw.js:18-43, 60-120,
\* 242-245, 299-300, 525-529). The first instance has installed with
\* everything stored, next to a namespace of an earlier version; further
\* instances install and activate, pages that are not cached and images
\* that are not precached are requested, and CLEAR_CACHE messages arrive.

FallbackRequests ==
    { Request("GET", Path(<<"jobs">>), HTML_ACCEPT),
      Request("GET", Path(<<"assets", "images", "photo.jpg">>), NoHeader) }

\* The store after a complete install.
FallbackInit ==
    /\ lifecycle = "installed"
    /\ names = << [name |-> STALE_CACHE, id |-> 1],
                  [name |-> CACHE_NAME, id |-> 2],
                  [name |-> OFFLINE_CACHE, id |-> 3] >>
    /\ objs = << OldContent(STALE_CACHE),
                 AddAll(<< >>, PRECACHE_ASSETS, 1),
                 Store(<< >>, OFFLINE_HTML, NetResponse(200, OFFLINE_HTML, 1)) >>
    /\ tasks = << >>
    /\ written = {}
    /\ outbox = << >>
    /\ clears = 0
    /\ OthersIdle

FallbackNext ==
    \/ Activate
    \/ NewInstance
    \/ Install
    \/ ClearCache
    \/ \E req \in FallbackRequests : FetchEvent(req)
    \/ \E i \in DOMAIN tasks : ImageOpen(i)
    \/ \E i \in DOMAIN tasks : ImageMatch(i)
    \/ \E i \in DOMAIN tasks : \E r \in NetResponses(Key(tasks[i])) : ImageFetchResolves(i, r)
    \/ \E i \in DOMAIN tasks : ImageFetchThrows(i)
    \/ \E i \in DOMAIN tasks : ImageFallback(i)
    \/ \E i \in DOMAIN tasks : \E r \in NetResponses(Key(tasks[i])) : HtmlFetchResolves(i, r)
    \/ \E i \in DOMAIN tasks : HtmlOpenPut(i)
    \/ \E i \in DOMAIN tasks : HtmlFetchThrows(i)
    \/ \E i \in DOMAIN tasks : HtmlCatchOpen(i)
    \/ \E i \in DOMAIN tasks : HtmlCatchMatch(i)
    \/ \E i \in DOMAIN tasks : HtmlOffline(i)
    \/ \E i \in DOMAIN tasks : BackgroundPut(i)

FallbackSpec == FallbackInit /\ [][FallbackNext]_vars

\* caches.match finds the offline page and the fallback image.
FallbacksStored ==
    /\ CachesMatch(names, objs, OFFLINE_HTML) # Undefined
    /\ CachesMatch(names, objs, FALLBACK_JPG) # Undefined

\* A request that ended in its strategy's fallback lookup.
FellBack(t) ==
    /\ t.pc = "done"
    /\ t.fetch.state = "threw"
    /\ t.hit = "miss"
    /\ t.handler \in {"HTML", "IMAGE"}

----------------------------------------------------------------------------
\* Progress of the strategies (src/sw.js:171-331). The platform completes
\* the cache operations it accepted and fires the timers that were set;
\* whether a fetch ever settles is the network's business.

LiveRequests ==
    StoreRequests \cup { Request("GET", LOGO_SVG, NoHeader) }

\* The completion of a cache operation of task i.
CacheStep(i) ==
    \/ ApiOpen(i) \/ ApiPut(i) \/ ApiCatchMatch(i)
    \/ ImageOpen(i) \/ ImageMatch(i) \/ ImageFallback(i)
    \/ AssetOpen(i) \/ AssetMatch(i)
    \/ HtmlOpenPut(i) \/ HtmlCatchOpen(i) \/ HtmlCatchMatch(i) \/ HtmlOffline(i)
    \/ DefaultOpenPut(i) \/ DefaultCatchOpen(i) \/ DefaultCatchMatch(i)
    \/ BackgroundPut(i)

\* The fetch a handler awaits settles, one way or the other.
FetchStep(i) ==
    \/ \E r \in NetResponses(Key(tasks[i])) :
          \/ ApiFetchResolves(i, r)
          \/ ImageFetchResolves(i, r)
          \/ AssetFetchResolves(i, r)
          \/ HtmlFetchResolves(i, r)
          \/ DefaultFetchResolves(i, r)
    \/ ApiFetchThrows(i) \/ ImageFetchThrows(i) \/ AssetFetchThrows(i)
    \/ HtmlFetchThrows(i) \/ DefaultFetchThrows(i)

LiveNext ==
    \/ \E req \in LiveRequests : FetchEvent(req)
    \/ \E i \in DOMAIN tasks : CacheStep(i)
    \/ \E i \in DOMAIN tasks : FetchStep(i)
    \/ \E i \in DOMAIN tasks : ApiTimeout(i)
    \/ \E i \in DOMAIN tasks : ApiLateFetch(i)

\* Cache operations complete and timers fire.
LiveSpec ==
    /\ ListenerInit
    /\ [][LiveNext]_vars
    /\ \A i \in 1..MaxEvents :
          /\ WF_vars(i \in DOMAIN tasks /\ CacheStep(i))
          /\ WF_vars(i \in DOMAIN tasks /\ ApiTimeout(i))

\* Every fetch a handler awaits settles.
FetchesSettle ==
    \A i \in 1..MaxEvents : WF_vars(i \in DOMAIN tasks /\ FetchStep(i))

\* The request of task i is of one of the classes that wait for the
\* network without a timer.
WaitsForNetwork(t) ==
    \/ t.handler \in {"HTML", "DEFAULT"}
    \/ t.handler = "IMAGE" /\ t.hit = "miss"

\* An API request is answered, whatever its fetch does.
ApiAnswered ==
    \A i \in 1..MaxEvents :
        (i \in DOMAIN tasks /\ tasks[i].handler = "API")
            ~> (i \in DOMAIN tasks /\ tasks[i].result.state = "fulfilled")

\* A request that waits for the network is settled only once its fetch has.
SettledOnlyAfterFetch ==
    \A i \in TaskIds :
        WaitsForNetwork(tasks[i]) /\ Settled(tasks[i]) =>
            tasks[i].fetch.state \in {"resolved", "threw"}

\* Every intercepted request comes to its end, its promise settled.
AllFinish ==
    \A i \in 1..MaxEvents :
        (i \in DOMAIN tasks /\ tasks[i].handler # "NONE")
            ~> (i \in DOMAIN tasks /\ tasks[i].pc = "done" /\ Settled(tasks[i]))

\* C36: an API request is eventually answered even if its fetch never
\* settles; an image request without a cached copy, an HTML and a DEFAULT
\* request are settled only after their fetch has settled; and if every
\* fetch settles, every intercepted GET request eventually finishes.
C36_ResponseLiveness ==
    /\ ApiAnswered
    /\ []SettledOnlyAfterFetch
    /\ (FetchesSettle => AllFinish)

\* An API request was answered after the timer fired while its fetch is
\* still in flight, next to a page request that is still waiting for the
\* network.
C36_Witness ==
    \E i, j \in TaskIds :
        /\ tasks[i].handler = "API"
        /\ tasks[i].timedOut
        /\ tasks[i].fetch.state = "pending"
        /\ tasks[i].result.state = "fulfilled"
        /\ tasks[j].handler = "HTML"
        /\ tasks[j].fetch.state = "pending"
        /\ tasks[j].result.state = "pending"

----------------------------------------------------------------------------
\* The network-first strategies over a cache store that may refuse any
\* operation (src/sw.js:279-331).

WriteRequests ==
    { Request("GET", Path(<<"jobs">>), HTML_ACCEPT),
      Request("GET", Path(<<"data.json">>), JSON_ACCEPT) }

WriteNext ==
    \/ \E req \in WriteRequests : FetchEvent(req)
    \/ \E i \in DOMAIN tasks : CacheOpFails(i)
    \/ \E i \in DOMAIN tasks : \E r \in NetResponses(Key(tasks[i])) : HtmlFetchResolves(i, r)
    \/ \E i \in DOMAIN tasks : HtmlOpenPut(i)
    \/ \E i \in DOMAIN tasks : HtmlFetchThrows(i)
    \/ \E i \in DOMAIN tasks : HtmlCatchOpen(i)
    \/ \E i \in DOMAIN tasks : HtmlCatchMatch(i)
    \/ \E i \in DOMAIN tasks : HtmlOffline(i)
    \/ \E i \in DOMAIN tasks : \E r \in NetResponses(Key(tasks[i])) : DefaultFetchResolves(i, r)
    \/ \E i \in DOMAIN tasks : DefaultOpenPut(i)
    \/ \E i \in DOMAIN tasks : DefaultFetchThrows(i)
    \/ \E i \in DOMAIN tasks : DefaultCatchOpen(i)
    \/ \E i \in DOMAIN tasks : DefaultCatchMatch(i)
    \/ \E i \in DOMAIN tasks : BackgroundPut(i)

\* The worker is installed and active, its two namespaces filled.
WriteSpec == ListenerInit /\ [][WriteNext]_vars

\* An HTML or DEFAULT request whose handler has issued its cache.put.
NetworkFirstPut(t) ==
    /\ t.handler \in {"HTML", "DEFAULT"}
    /\ t.fetch.state = "resolved"
    /\ t.put # "none"

\* C37: once handleHtmlRequest or networkFirstWithCache has issued the put
\* for a network response, the caller has that response, unchanged, while
\* the put is pending, after it completed and after it failed: the put is
\* not awaited and its failure reaches no catch block.
C37_PutNeverReplacesResponse ==
    \A i \in TaskIds :
        NetworkFirstPut(tasks[i]) =>
            /\ tasks[i].result = Fulfilled(tasks[i].fetch.resp)
            /\ tasks[i].fetch.resp.type = "network"

\* A page request and a DEFAULT request have their network response, the
\* put of the one failed, that of the other still pending.
C37_Witness ==
    \E i, j \in TaskIds :
        /\ tasks[i].handler = "HTML"
        /\ tasks[i].put = "failed"
        /\ tasks[i].result = Fulfilled(tasks[i].fetch.resp)
        /\ tasks[j].handler = "DEFAULT"
        /\ tasks[j].put = "pending"
        /\ tasks[j].result = Fulfilled(tasks[j].fetch.resp)

----------------------------------------------------------------------------
\* Periodic syncs next to CLEAR_CACHE messages (src/sw.js:449-476, 525-529).

PeriodicMessages == { MessageEvent(TRUE, "CLEAR_CACHE", NoUrls, TRUE) }

PeriodicNext ==
    \/ \E tag \in PeriodicTags : PeriodicSync(tag)
    \/ \E i \in {j \in DOMAIN syncs : syncs[j].pc = "content_fetch"} :
          \E r \in NetResponses(LATEST_CONTENT) : ContentFetchResolves(i, r)
    \/ \E i \in DOMAIN syncs : ContentFetchThrows(i)
    \/ \E i \in DOMAIN syncs : ContentJson(i)
    \/ \E i \in DOMAIN syncs : ContentJsonFails(i)
    \/ \E i \in DOMAIN syncs : ContentOpen(i)
    \/ \E i \in DOMAIN syncs : ContentPut(i)
    \/ \E i \in DOMAIN syncs : ContentCacheFails(i)
    \/ \E m \in PeriodicMessages : Message(m)
    \/ \E i \in DOMAIN msgs : ClearKeys(i)
    \/ \E i \in DOMAIN msgs : \E n \in msgs[i].todo : ClearDelete(i, n)
    \/ \E i \in DOMAIN msgs : ClearSettled(i)

\* The worker is installed and active, its two namespaces filled.
PeriodicSpec == ListenerInit /\ [][PeriodicNext]_vars

\* The CONTENT_UPDATED broadcasts made so far, as positions in outbox.
ContentBroadcasts ==
    {n \in DOMAIN outbox : outbox[n].type = "CONTENT_UPDATED"}

\* The updateContent runs.
ContentRuns == {i \in DOMAIN syncs : syncs[i].tag = "update-content"}

\* Every broadcast is that of one run, which made it after its cache.put
\* had completed, and carries the content that run has put.
SentAfterPut ==
    /\ \A n \in ContentBroadcasts : \E i \in ContentRuns : syncs[i].sent = n
    /\ \A i \in ContentRuns :
          syncs[i].sent # 0 =>
              /\ syncs[i].put = "done"
              /\ syncs[i].error = "none"
              /\ syncs[i].sent \in ContentBroadcasts
              /\ outbox[syncs[i].sent].data = syncs[i].content

\* A run that failed has sent nothing and has ended by returning.
FailedRunsQuiet ==
    \A i \in ContentRuns :
        /\ syncs[i].pc # "rejected"
        /\ syncs[i].error # "none" => syncs[i].sent = 0 /\ syncs[i].pc = "done"

\* The step in which a run fails leaves the cache store and the pages alone.
FailureChangesNothing ==
    [][\A i \in ContentRuns :
          syncs[i].error = "none" /\ syncs'[i].error # "none" =>
              /\ names' = names
              /\ objs' = objs
              /\ outbox' = outbox]_vars

\* C38, as claimed: a run that has sent CONTENT_UPDATED has completed the
\* write of /api/latest-content to the current-version namespace before,
\* and a run that failed has sent nothing and ended without rejection.
C38_AsClaimed ==
    /\ SentAfterPut
    /\ FailedRunsQuiet
    /\ \A i \in ContentRuns : syncs[i].sent # 0 => syncs[i].landed

\* C38, amended: CONTENT_UPDATED is sent once per successful run, after
\* the awaited cache.put has completed through the Cache object the run
\* opened; the write showed in the current-version namespace unless a
\* CLEAR_CACHE deleted that namespace after the run had opened it. A run
\* whose fetch, JSON parse or cache operation fails sends nothing, leaves
\* the cache store as it is and ends by returning.
C38_ContentUpdatedAfterWrite ==
    /\ [](/\ SentAfterPut
          /\ FailedRunsQuiet
          /\ \A i \in ContentRuns :
                syncs[i].sent # 0 =>
                    \/ syncs[i].landed
                    \/ \E m \in DOMAIN msgs : CACHE_NAME \in msgs[m].deleted)
    /\ FailureChangesNothing

\* One run has written and told the pages; a later run failed and the
\* entry of the first is still the namespace's.
C38_Witness ==
    \E i, j \in ContentRuns :
        /\ i < j
        /\ syncs[i].sent # 0
        /\ syncs[i].landed
        /\ syncs[j].error # "none"
        /\ syncs[j].pc = "done"
        /\ CurrentEntryOf(LATEST_CONTENT) = ContentResponse(syncs[i].content)

----------------------------------------------------------------------------
\* The listener's first test next to the running strategies
\* (src/sw.js:126-164): extension and sockjs-node URLs of every path shape
\* and Accept header, and one request of every policy class.

BypassRequests ==
    { Request("GET", Url("chrome-extension", <<"assets", "images", "icon.png">>), NoHeader),
      Request("GET", Url("chrome-extension", <<"index.html">>), HTML_ACCEPT),
      Request("GET", Path(<<"api", "sockjs-node", "info">>), JSON_ACCEPT),
      Request("GET", Path(<<"sockjs-node">>), HTML_ACCEPT),
      Request("GET", Path(<<"assets", "js", "sockjs-node", "client.js">>), NoHeader) }
    \cup StoreRequests

BypassNext ==
    \/ \E req \in BypassRequests : FetchEvent(req)
    \/ \E i \in DOMAIN tasks : CacheStep(i)
    \/ \E i \in DOMAIN tasks : FetchStep(i)
    \/ \E i \in DOMAIN tasks : ApiTimeout(i)
    \/ \E i \in DOMAIN tasks : ApiLateFetch(i)

\* The worker is installed and active, its two namespaces filled.
BypassSpec == ListenerInit /\ [][BypassNext]_vars

\* The awaits of each strategy, as the positions a task can be at.
PcsOf(class) ==
    CASE class = "API" -> {"api_open", "api_race", "api_put", "api_catch", "done"}
      [] class = "IMAGE" ->
            {"image_open", "image_match", "image_fetch", "image_fallback",
             "put_pending", "done"}
      [] class = "ASSET" ->
            {"asset_open", "asset_match", "asset_fetch", "asset_revalidate",
             "put_pending", "done"}
      [] class = "HTML" ->
            {"html_fetch", "html_open", "html_catch_open", "html_catch_match",
             "html_offline", "put_pending", "done"}
      [] class = "DEFAULT" ->
            {"default_fetch", "default_open", "default_catch_open",
             "default_catch_match", "put_pending", "done"}

\* The URL starts with chrome-extension:// or contains sockjs-node.
ExtensionOrSockJs(req) ==
    \/ req.url.scheme = "chrome-extension"
    \/ "sockjs-node" \in Range(req.url.segs)

\* C39: for a GET request whose URL starts with chrome-extension:// or
\* contains sockjs-node, whatever its path and Accept header, respondWith
\* is not called, no strategy is started, and no cache store call and no
\* fetch is ever made for it; every other GET request is given to the one
\* strategy of its class and only that strategy's steps run for it.
C39_ExtensionAndSockJsBypassed ==
    \A i \in TaskIds :
        tasks[i].req.method = "GET" =>
            IF ExtensionOrSockJs(tasks[i].req)
            THEN /\ tasks[i].handler = "NONE"
                 /\ tasks[i].pc = "bypassed"
                 /\ tasks[i].result = NoRespondWith
                 /\ tasks[i].fetch = NoFetch
                 /\ tasks[i].cacheOps = 0
                 /\ tasks[i].cache = 0
                 /\ tasks[i].put = "none"
                 /\ \A w \in written : w[1] # Key(tasks[i])
            ELSE /\ tasks[i].handler = ClaimedClass(tasks[i].req)
                 /\ tasks[i].pc \in PcsOf(ClaimedClass(tasks[i].req))
                 /\ tasks[i].result.state # "none"

\* A sockjs-node request under /api/ was passed by while an API request
\* was served and its response cached.
C39_Witness ==
    \E i, j \in TaskIds :
        /\ i < j
        /\ tasks[i].req = Request("GET", Path(<<"api", "sockjs-node", "info">>), JSON_ACCEPT)
        /\ tasks[i].pc = "bypassed"
        /\ tasks[j].handler = "API"
        /\ tasks[j].pc = "done"
        /\ tasks[j].put = "done"

----------------------------------------------------------------------------
\* The fetch listener of the older script, service-worker.js
\* (src/unnamed/part_001:44-90), with that script in control of the pages.
\* Its fetch events are kept in tasks, one record each.

LOGO_72 == Path(<<"assets", "images", "logo-72.png">>)

\* What a fetch the older script issued can resolve with: a same-origin
\* response (type basic) of any status, or a cross-origin one (type cors).
LegacyNetResponses(url) ==
    {[type |-> "network", status |-> r.status, url |-> url, ver |-> r.ver,
      rtype |-> "basic"] : r \in NetResponses(url)}
        \cup {[type |-> "network", status |-> 200, url |-> url, ver |-> 1,
               rtype |-> "cors"]}

\* Buggy variant of the test of lines 61-65: every successful status passes.
CacheableAny2xx(resp) == Ok(resp) /\ resp.rtype = "basic"

\* The negation of the test of lines 61-65: the response is stored.
Cacheable(resp) == resp.status = 200 /\ resp.rtype = "basic"

\* The extension the URL ends in, for the file names the pages request;
\* empty when the last segment has none.
Extension(url) ==
    LET last == IF url.segs = << >> THEN "" ELSE url.segs[Len(url.segs)]
    IN CASE last \in {"logo-72.png", "logo-96.png"} -> "png"
         [] last = "photo.jpg" -> "jpg"
         [] last = "banner.webp" -> "webp"
         [] OTHER -> ""

\* event.request.url.match(/\.(png|jpg|jpeg|gif)$/)
EndsInImageExtension(url) == Extension(url) \in {"png", "jpg", "jpeg", "gif"}

\* Buggy variant of the catch callback: the image test comes first.
LegacyCatchPcImageFirst(req) ==
    IF EndsInImageExtension(req.url) THEN "legacy_image"
    ELSE IF AcceptsHtml(req) THEN "legacy_offline"
    ELSE "done"

\* The catch callback of lines 78-87: where the handler goes for req. A
\* request that accepts text/html asks for the offline page, any other
\* whose URL has an image extension asks for the logo, and for the rest
\* the callback returns undefined.
LegacyCatchPc(req) ==
    IF AcceptsHtml(req) THEN "legacy_offline"
    ELSE IF EndsInImageExtension(req.url) THEN "legacy_image"
    ELSE "done"

\* The listener of the older script runs for req: a request that is not a
\* GET is left alone, for any other caches.match(event.request) is called.
LegacyTask(req) ==
    [NewTask(req) EXCEPT
        !.handler = IF req.method # "GET" THEN "NONE" ELSE "LEGACY",
        !.pc = IF req.method # "GET" THEN "bypassed" ELSE "legacy_match",
        !.fetch = NoFetch,
        !.result = IF req.method # "GET" THEN NoRespondWith ELSE Pending]

LegacyFetchEvent(req) ==
    /\ legacy.state = "active"
    /\ Len(tasks) < MaxEvents
    /\ tasks' = Append(tasks, LegacyTask(req))
    /\ UNCHANGED <<lifecycle, names, objs, written, others, outbox, clears>>

\* caches.match(event.request) resolves: a hit in any namespace is
\* returned, a miss sends the request to the network.
LegacyMatch(i) ==
    /\ tasks[i].pc = "legacy_match"
    /\ LET c == CachesMatch(names, objs, Key(tasks[i]))
           t == [tasks[i] EXCEPT !.cachedResponse = c,
                                 !.hit = IF c # Undefined THEN "hit" ELSE "miss",
                                 !.cacheOps = @ + 1]
       IN Commit(Set(i, IF c # Undefined
                        THEN Done([t EXCEPT !.result = Fulfilled(c)])
                        ELSE [t EXCEPT !.pc = "legacy_fetch",
                                       !.fetch = FetchPending]),
                 names, objs)
    /\ UNCHANGED <<lifecycle, written, others, outbox, clears>>

\* fetch(fetchRequest) resolves with r, which is returned; when it passes
\* the test of lines 61-65, caches.open(CACHE_NAME) is called on the side.
LegacyFetchResolves(i, r) ==
    /\ tasks[i].pc = "legacy_fetch"
    /\ Commit(Set(i, IF Cacheable(r)
                     THEN [tasks[i] EXCEPT !.pc = "legacy_open",
                                           !.fetch = FetchResolved(r),
                                           !.result = Fulfilled(r)]
                     ELSE Done([tasks[i] EXCEPT !.fetch = FetchResolved(r),
                                                !.result = Fulfilled(r)])),
              names, objs)
    /\ UNCHANGED <<lifecycle, written, others, outbox, clears>>

\* caches.open(CACHE_NAME) of line 72 resolves and cache.put is called.
LegacyCacheOpen(i) ==
    /\ tasks[i].pc = "legacy_open"
    /\ Commit(Set(i, [tasks[i] EXCEPT
                        !.pc = "legacy_put",
                        !.put = "pending",
                        !.cache = OpenId(names, objs, LEGACY_CACHE_NAME),
                        !.cacheOps = @ + 1]),
              OpenNames(names, objs, LEGACY_CACHE_NAME),
              OpenObjs(names, objs, LEGACY_CACHE_NAME))
    /\ UNCHANGED <<lifecycle, written, others, outbox, clears>>

\* cache.put(event.request, responseToCache) takes effect.
LegacyCachePut(i) ==
    /\ tasks[i].pc = "legacy_put"
    /\ Commit(Set(i, Done([tasks[i] EXCEPT !.put = "done", !.cacheOps = @ + 1])),
              names,
              [objs EXCEPT ![tasks[i].cache] =
                  Store(@, Key(tasks[i]), tasks[i].fetch.resp)])
    /\ written' = written \cup {<<Key(tasks[i]), tasks[i].fetch.resp>>}
    /\ UNCHANGED <<lifecycle, others, outbox, clears>>

\* fetch(fetchRequest) rejects and the catch callback runs.
LegacyFetchThrows(i) ==
    /\ tasks[i].pc = "legacy_fetch"
    /\ LET pc == LegacyCatchPc(tasks[i].req)
           t == [tasks[i] EXCEPT !.fetch = FetchThrew]
       IN Commit(Set(i, IF pc = "done"
                        THEN Done([t EXCEPT !.result = Fulfilled(Undefined)])
                        ELSE [t EXCEPT !.pc = pc]),
                 names, objs)
    /\ UNCHANGED <<lifecycle, written, others, outbox, clears>>

\* caches.match("/offline.html") or caches.match("/assets/images/logo-72.png")
\* resolves, and with it the promise given to respondWith.
LegacyFallback(i) ==
    /\ tasks[i].pc \in {"legacy_offline", "legacy_image"}
    /\ LET key == IF tasks[i].pc = "legacy_offline" THEN OFFLINE_HTML ELSE LOGO_72
       IN Commit(Set(i, Done([tasks[i] EXCEPT
                                !.cacheOps = @ + 1,
                                !.result = Fulfilled(CachesMatch(names, objs, key))])),
                 names, objs)
    /\ UNCHANGED <<lifecycle, written, others, outbox, clears>>

\* The requests of a page the older script controls. Every request carries
\* an Accept header: the browser adds one where the page gave none.
LegacyRequests ==
    { Request("GET", ROOT, HTML_ACCEPT),
      Request("GET", Path(<<"jobs">>), HTML_ACCEPT),
      Request("GET", Path(<<"assets", "images", "photo.jpg">>),
              Header(<<"image/avif", "image/webp", "*/*">>)),
      Request("GET", Path(<<"assets", "images", "photo.jpg">>), HTML_ACCEPT),
      Request("GET", Path(<<"assets", "images", "banner.webp">>),
              Header(<<"image/avif", "image/webp", "*/*">>)),
      Request("GET", API_WIDGETS, JSON_ACCEPT),
      Request("POST", API_WIDGETS, JSON_ACCEPT) }

\* The older script is active. Its install stored its list or failed (the
\* namespace is then empty), and the store may hold the offline namespace
\* of the newer script as well.
LegacyInit ==
    /\ lifecycle = "parsed"
    /\ \E filled \in BOOLEAN, offline \in BOOLEAN :
          /\ names = IF offline
                     THEN << [name |-> LEGACY_CACHE_NAME, id |-> 1],
                             [name |-> OFFLINE_CACHE, id |-> 2] >>
                     ELSE << [name |-> LEGACY_CACHE_NAME, id |-> 1] >>
          /\ objs = [i \in DOMAIN names |->
                       IF names[i].name = LEGACY_CACHE_NAME
                       THEN IF filled THEN AddAll(<< >>, urlsToCache, 1) ELSE << >>
                       ELSE Store(<< >>, OFFLINE_HTML,
                                  NetResponse(200, OFFLINE_HTML, 2))]
    /\ tasks = << >>
    /\ written = {}
    /\ outbox = << >>
    /\ clears = 0
    /\ instances = 0
    /\ activation = NoActivation
    /\ legacy = [NoLegacy EXCEPT !.state = "active"]
    /\ msgs = << >>
    /\ queue = << >>
    /\ syncs = << >>
    /\ posts = << >>
    /\ windows = << >>
    /\ matched = 0
    /\ pushes = << >>

LegacyNext ==
    \/ \E req \in LegacyRequests : LegacyFetchEvent(req)
    \/ \E i \in DOMAIN tasks : LegacyMatch(i)
    \/ \E i \in DOMAIN tasks : \E r \in LegacyNetResponses(Key(tasks[i])) : LegacyFetchResolves(i, r)
    \/ \E i \in DOMAIN tasks : LegacyFetchThrows(i)
    \/ \E i \in DOMAIN tasks : LegacyCacheOpen(i)
    \/ \E i \in DOMAIN tasks : LegacyCachePut(i)
    \/ \E i \in DOMAIN tasks : LegacyFallback(i)

LegacySpec == LegacyInit /\ [][LegacyNext]_vars

\* The fetch events of the older script that are over.
LegacyAnswered == {i \in DOMAIN tasks : tasks[i].handler = "LEGACY" /\ tasks[i].pc = "done"}

\* A hit is returned as it was found, with no fetch and no write.
LegacyHitServed(t) ==
    t.hit = "hit" =>
        /\ t.result = Fulfilled(t.cachedResponse)
        /\ t.fetch = NoFetch
        /\ t.put = "none"

\* After a miss the network response is returned, and put is called only
\* for a response of status 200 and type basic, on pwa-cache-v1.
LegacyMissFetched(t) ==
    /\ (t.fetch.state = "resolved" => t.hit = "miss" /\ t.result = Fulfilled(t.fetch.resp))
    /\ (t.put # "none" =>
            /\ t.fetch.state = "resolved"
            /\ t.fetch.resp.status = 200 /\ t.fetch.resp.rtype = "basic"
            /\ Lookup(objs[IdOf(names, LEGACY_CACHE_NAME)], t.req.url) # Undefined)

\* Only a put of the older script changes the store, and it stores what
\* the network gave under the URL of the request.
LegacyOnlyFetchedStored ==
    \A w \in written : \E i \in DOMAIN tasks :
        /\ w[1] = tasks[i].req.url
        /\ tasks[i].fetch.state = "resolved"
        /\ w[2] = tasks[i].fetch.resp
        /\ Cacheable(w[2])

\* C40 as stated (counterexample): the older script serves every GET
\* cache-first, stores only basic responses of status 200, and when the
\* network fails an HTML request gets the /offline.html entry and a request
\* whose URL ends in png, jpg, jpeg or gif gets the logo-72.png entry.
C40_AsClaimed ==
    \A i \in LegacyAnswered :
        LET t == tasks[i]
        IN /\ LegacyHitServed(t)
           /\ LegacyMissFetched(t)
           /\ (t.fetch.state = "threw" /\ AcceptsHtml(t.req) =>
                 t.result = Fulfilled(CachesMatch(names, objs, OFFLINE_HTML)))
           /\ (t.fetch.state = "threw" /\ EndsInImageExtension(t.req.url) =>
                 t.result = Fulfilled(CachesMatch(names, objs, LOGO_72)))

\* C40 (amended): the older script serves every GET cache-first: a hit in
\* any namespace is returned with no fetch and no write; after a miss the
\* network response is returned, and stored in pwa-cache-v1 only when its
\* status is 200 and its type basic. When the network fails, a request that
\* accepts text/html gets what caches.match("/offline.html") finds, a
\* request that does not and whose URL ends in .png, .jpg, .jpeg or .gif
\* gets what caches.match of the logo finds, and any other gets undefined;
\* either lookup gives undefined when no namespace holds the entry.
C40_LegacyCacheFirst ==
    /\ LegacyOnlyFetchedStored
    /\ \A i \in LegacyAnswered :
        LET t == tasks[i]
        IN /\ LegacyHitServed(t)
           /\ LegacyMissFetched(t)
           /\ (t.fetch.state = "threw" =>
                 /\ t.hit = "miss" /\ t.put = "none"
                 /\ t.result =
                      IF AcceptsHtml(t.req)
                      THEN Fulfilled(CachesMatch(names, objs, OFFLINE_HTML))
                      ELSE IF EndsInImageExtension(t.req.url)
                      THEN Fulfilled(CachesMatch(names, objs, LOGO_72))
                      ELSE Fulfilled(Undefined))

\* Witness for C40: a navigation to an image failed on the network and got
\* the offline page, and an image request got the logo.
C40_Witness ==
    \E i, j \in LegacyAnswered :
        /\ tasks[i].fetch.state = "threw" /\ tasks[j].fetch.state = "threw"
        /\ AcceptsHtml(tasks[i].req) /\ EndsInImageExtension(tasks[i].req.url)
        /\ tasks[i].result.value # Undefined
        /\ tasks[i].result.value.url = OFFLINE_HTML
        /\ ~AcceptsHtml(tasks[j].req)
        /\ tasks[j].result.value # Undefined
        /\ tasks[j].result.value.url = LOGO_72

============================================================================
